---- MODULE Spec2Model ----
(***************************************************************************)
(* A model of the cadastral client library: the GIS cache, the GML parser, *)
(* the land-registry ownership views, the batch processor and the query    *)
(* facade of the API client.  Each component has its own variables and its *)
(* own specification; the variables of the other components stay idle.     *)
(***************************************************************************)
EXTENDS Integers, Sequences, FiniteSets, TLC

VARIABLES
    fs,        \* cache directory: municipality -> [dir, zip, gml]
    stats,     \* per municipality: calls made, HTTP downloads, archive reads, ...
    returned,  \* per municipality: the paths get_parcel_data has returned
    sheetB,    \* an OwnershipSheetB: its lr_unit_shares
    owners,    \* what get_all_owners returned for it
    doc,       \* a GML document: its featureMember records, in document order
    query,     \* the parcel number asked of get_parcel_by_number
    found,     \* what get_parcel_by_number returned
    parcels,   \* what get_all_parcels returned
    call,      \* the arguments of the client call being made
    remote,    \* what the data source answers to the requests of that call
    outcome,   \* what the call returned or raised, and the requests it sent
    batch,     \* the arguments of process_batch: parcels and continue_on_error
    loop,      \* its loop state: position i, results, successful, failed
    lookups,   \* the items it looked up, in order, with the requests made for each
    summary,   \* what process_batch returned or raised
    disk,      \* the cache directory of one municipality, as concurrent processes see it
    procs,     \* each concurrent process's position in get_parcel_data and its result
    entity,    \* a validated model object (a Possessor, a Sheet B, a unit)
    derived,   \* the value of the derived property or method computed on it
    last       \* the last cache operation: its arguments, its result, the cache before it

cacheVars == <<fs, stats, returned>>
ownersVars == <<sheetB, owners>>
gmlVars == <<doc, query, found, parcels>>
clientVars == <<call, remote, outcome>>
batchVars == <<batch, loop, lookups, summary>>
raceVars == <<disk, procs>>
entityVars == <<entity, derived>>
opVars == <<last>>

vars == <<cacheVars, ownersVars, gmlVars, clientVars, batchVars, raceVars, entityVars,
          opVars>>

Idle == "idle"

\* A call that was not made yet, a call that returned v, a call that raised e.
NotCalled == [done |-> FALSE]
Returned(v) == [done |-> TRUE, ok |-> TRUE, value |-> v]
Raised(e) == [done |-> TRUE, ok |-> FALSE, error |-> e]

\* Python's None.
None == [none |-> TRUE]

(***************************************************************************)
(* Bounds of the model.                                                    *)
(***************************************************************************)
MaxCalls == 3
MaxShares == 2
MaxSubShares == 1
MaxFeatures == 2
MaxResults == 2
MaxParcels == 2
MaxOwnershipLen == 3
MaxFractionShares == 3
MaxPossessors == 2
MaxTokens == 3
MaxParts == 2
MaxSpecs == 2
MaxRows == 2

(***************************************************************************)
(* GIS cache (api/src/cadastral_api/gis/cache.py).                         *)
(***************************************************************************)
Munis == {"334979", "334731"}

NoFile == "absent"

\* The file name get_parcel_data asks extract_gml for.
ParcelsGml == "katastarske_cestice.gml"

\* What the ATOM feed answers to one download: an HTTP failure, or an archive
\* that holds the parcels file or lacks it.
HttpAnswers == {"http_error", "archive_with_gml", "archive_without_gml"}

EmptyDir == [dir |-> FALSE, zip |-> NoFile, gml |-> NoFile]

NoStats == [calls |-> 0, downloads |-> 0, zipWrites |-> 0, zipReads |-> 0, gmlWrites |-> 0]

\* get_municipality_dir: the directory is created as a side effect.
get_municipality_dir(f, m) == [f EXCEPT ![m].dir = TRUE]

\* get_zip_path: goes through get_municipality_dir.
get_zip_path(f, m) == get_municipality_dir(f, m)

\* get_gml_path: <cache_dir>/ko-<m>/<filename>.
get_gml_path(m, filename) == <<"ko-", m, filename>>

\* is_cached: the archive exists.
is_cached(f, m) == f[m].zip # NoFile

\* download_municipality: [fs, st, raised] after one call with the feed's answer.
download_municipality(f, st, m, force, answer) ==
    LET f1 == get_zip_path(f, m)
    IN  IF f1[m].zip # NoFile /\ ~force
        THEN [fs |-> f1, st |-> st, raised |-> "none"]
        ELSE LET st1 == [st EXCEPT ![m].downloads = @ + 1]
             IN  IF answer = "http_error"
                 THEN [fs |-> f1, st |-> st1, raised |-> "HTTPError"]
                 ELSE [fs |-> [f1 EXCEPT ![m].zip = answer],
                       st |-> [st1 EXCEPT ![m].zipWrites = @ + 1],
                       raised |-> "none"]

\* extract_gml without the "already extracted" test: the archive is read and the
\* file written on every call.
extract_gml_always(f, st, m, filename) ==
    LET f1 == get_zip_path(f, m)
    IN  IF f1[m].zip = NoFile
        THEN [fs |-> f1, st |-> st, raised |-> "FileNotFoundError", path |-> <<>>]
        ELSE LET st1 == [st EXCEPT ![m].zipReads = @ + 1]
             IN  IF f1[m].zip # "archive_with_gml"
                 THEN [fs |-> f1, st |-> st1, raised |-> "KeyError", path |-> <<>>]
                 ELSE [fs |-> [f1 EXCEPT ![m].gml = filename],
                       st |-> [st1 EXCEPT ![m].gmlWrites = @ + 1],
                       raised |-> "none",
                       path |-> get_gml_path(m, filename)]

\* extract_gml: [fs, st, raised, path] after one call.
extract_gml(f, st, m, filename) ==
    LET f1 == get_zip_path(f, m)
    IN  IF f1[m].zip = NoFile
        THEN [fs |-> f1, st |-> st, raised |-> "FileNotFoundError", path |-> <<>>]
        ELSE IF f1[m].gml # NoFile
        THEN [fs |-> f1, st |-> st, raised |-> "none", path |-> get_gml_path(m, filename)]
        ELSE LET st1 == [st EXCEPT ![m].zipReads = @ + 1]
             IN  IF f1[m].zip # "archive_with_gml"
                 THEN [fs |-> f1, st |-> st1, raised |-> "KeyError", path |-> <<>>]
                 ELSE [fs |-> [f1 EXCEPT ![m].gml = filename],
                       st |-> [st1 EXCEPT ![m].gmlWrites = @ + 1],
                       raised |-> "none",
                       path |-> get_gml_path(m, filename)]

\* get_parcel_data downloading a missing archive whatever auto_download is.
get_parcel_data_always_download(f, st, m, auto_download, answer) ==
    LET f0 == get_zip_path(f, m)
        d  == IF ~is_cached(f0, m)
              THEN download_municipality(f0, st, m, FALSE, answer)
              ELSE [fs |-> f0, st |-> st, raised |-> "none"]
    IN  IF d.raised # "none"
        THEN [fs |-> d.fs, st |-> d.st, raised |-> d.raised, path |-> <<>>]
        ELSE extract_gml(d.fs, d.st, m, ParcelsGml)

\* get_parcel_data: download when asked to and not cached, then extract.
get_parcel_data(f, st, m, auto_download, answer) ==
    LET f0 == get_zip_path(f, m)
        d  == IF auto_download /\ ~is_cached(f0, m)
              THEN download_municipality(f0, st, m, FALSE, answer)
              ELSE [fs |-> f0, st |-> st, raised |-> "none"]
    IN  IF d.raised # "none"
        THEN [fs |-> d.fs, st |-> d.st, raised |-> d.raised, path |-> <<>>]
        ELSE extract_gml(d.fs, d.st, m, ParcelsGml)

CacheIdle == fs = Idle /\ stats = Idle /\ returned = Idle
OwnersIdle == sheetB = Idle /\ owners = Idle
GmlIdle == doc = Idle /\ query = Idle /\ found = Idle /\ parcels = Idle
ClientIdle == call = Idle /\ remote = Idle /\ outcome = Idle
BatchIdle == batch = Idle /\ loop = Idle /\ lookups = Idle /\ summary = Idle
RaceIdle == disk = Idle /\ procs = Idle
EntityIdle == entity = Idle /\ derived = Idle
OpIdle == last = Idle

\* Every component but c is idle.
IdleBut(c) ==
    /\ IF c \in {"cache", "cacheops"} THEN TRUE ELSE CacheIdle
    /\ IF c = "owners" THEN TRUE ELSE OwnersIdle
    /\ IF c = "gml" THEN TRUE ELSE GmlIdle
    /\ IF c = "client" THEN TRUE ELSE ClientIdle
    /\ IF c = "batch" THEN TRUE ELSE BatchIdle
    /\ IF c = "race" THEN TRUE ELSE RaceIdle
    /\ IF c = "entity" THEN TRUE ELSE EntityIdle
    /\ IF c = "cacheops" THEN TRUE ELSE OpIdle

CacheInit ==
    /\ fs = [m \in Munis |-> EmptyDir]
    /\ stats = [m \in Munis |-> NoStats]
    /\ returned = [m \in Munis |-> {}]
    /\ IdleBut("cache")

\* One ensure_available(code) call: get_parcel_data(code, auto_download=True).
EnsureAvailable(m, answer) ==
    /\ stats[m].calls < MaxCalls
    /\ LET r == get_parcel_data(fs, stats, m, TRUE, answer)
       IN  /\ fs' = r.fs
           /\ stats' = [r.st EXCEPT ![m].calls = @ + 1]
           /\ returned' = IF r.raised = "none"
                          THEN [returned EXCEPT ![m] = @ \cup {r.path}]
                          ELSE returned
    /\ UNCHANGED <<ownersVars, gmlVars, clientVars, batchVars, raceVars, entityVars, opVars>>

EnsureNext == \E m \in Munis, answer \in HttpAnswers : EnsureAvailable(m, answer)

SpecEnsure == CacheInit /\ [][EnsureNext]_vars

(***************************************************************************)
(* Every operation of GISCache, called in any order on any municipality.   *)
(* last records the operation just made, the cache directory before it,    *)
(* what it raised and how many downloads it made.                          *)
(***************************************************************************)
\* clear_municipality removing the directory of every municipality.
clear_municipality_everything(f, m) == [x \in DOMAIN f |-> EmptyDir]

\* clear_municipality: get_municipality_dir, then rmtree of the directory.
clear_municipality(f, m) == [get_municipality_dir(f, m) EXCEPT ![m] = EmptyDir]

\* clear_all: rmtree of the cache directory, which is then created anew.
clear_all(f) == [m \in DOMAIN f |-> EmptyDir]

Call(op, m, before, raised, result, downloads) ==
    [op |-> op, code |-> m, before |-> before, raised |-> raised, result |-> result,
     downloads |-> downloads]

NoCounts == [m \in Munis |-> NoStats]

CacheOpsInit ==
    /\ fs = [m \in Munis |-> EmptyDir]
    /\ stats = NoCounts
    /\ returned = [m \in Munis |-> {}]
    /\ last = Call("none", "none", fs, "none", "none", 0)
    /\ IdleBut("cacheops")

OtherThanCacheOps ==
    <<stats, returned, ownersVars, gmlVars, clientVars, batchVars, raceVars, entityVars>>

IsCached(m) ==
    /\ fs' = get_zip_path(fs, m)
    /\ last' = Call("is_cached", m, fs, "none",
                    IF is_cached(get_zip_path(fs, m), m) THEN "True" ELSE "False", 0)
    /\ UNCHANGED OtherThanCacheOps

\* get_municipality_dir, get_zip_path and get_gml_path
GetPath(m) ==
    /\ fs' = get_municipality_dir(fs, m)
    /\ last' = Call("get_path", m, fs, "none", "path", 0)
    /\ UNCHANGED OtherThanCacheOps

DownloadMunicipality(m, force, answer) ==
    /\ LET r == download_municipality(fs, NoCounts, m, force, answer)
       IN  /\ fs' = r.fs
           /\ last' = Call("download_municipality", m, fs, r.raised, "path",
                           r.st[m].downloads)
    /\ UNCHANGED OtherThanCacheOps

ExtractGml(m) ==
    /\ LET r == extract_gml(fs, NoCounts, m, ParcelsGml)
       IN  /\ fs' = r.fs
           /\ last' = Call("extract_gml", m, fs, r.raised, "path", 0)
    /\ UNCHANGED OtherThanCacheOps

GetParcelData(m, auto_download, answer) ==
    /\ LET r == get_parcel_data(fs, NoCounts, m, auto_download, answer)
       IN  /\ fs' = r.fs
           /\ last' = Call(IF auto_download THEN "ensure_available"
                           ELSE "ensure_available_no_download",
                           m, fs, r.raised, "path", r.st[m].downloads)
    /\ UNCHANGED OtherThanCacheOps

ClearMunicipality(m) ==
    /\ fs' = clear_municipality(fs, m)
    /\ last' = Call("clear_municipality", m, fs, "none", "None", 0)
    /\ UNCHANGED OtherThanCacheOps

ClearAll ==
    /\ fs' = clear_all(fs)
    /\ last' = Call("clear_all", "none", fs, "none", "None", 0)
    /\ UNCHANGED OtherThanCacheOps

CacheOpsNext ==
    \/ \E m \in Munis : IsCached(m)
    \/ \E m \in Munis : GetPath(m)
    \/ \E m \in Munis, force \in BOOLEAN, answer \in HttpAnswers :
           DownloadMunicipality(m, force, answer)
    \/ \E m \in Munis : ExtractGml(m)
    \/ \E m \in Munis, auto_download \in BOOLEAN, answer \in HttpAnswers :
           GetParcelData(m, auto_download, answer)
    \/ \E m \in Munis : ClearMunicipality(m)
    \/ ClearAll

SpecCacheOps == CacheOpsInit /\ [][CacheOpsNext]_vars

(***************************************************************************)
(* Sheet B of a land-registry unit (api/src/cadastral_api/models/          *)
(* entities.py).  A share is [status, owners, subs]: LRShare.status,       *)
(* LRShare.owners (lrOwners) and LRShare.sub_shares_and_entries, whose     *)
(* elements have the shape of a share again.                               *)
(***************************************************************************)
\* Status codes of a share: 0 is active, anything else is not.
StatusCodes == {0, 1}

\* The owner lists a share may carry.
OwnerLists == {<<>>, <<"Owner A">>, <<"Owner B">>, <<"Owner A", "Owner B">>}

\* Sequences over S of length at most n.
SeqsUpTo(S, n) == UNION {[1..k -> S] : k \in 0..n}

SubShares == [status : StatusCodes, owners : OwnerLists \ {<<"Owner A", "Owner B">>}, subs : {<<>>}]

LRShares == [status : StatusCodes,
             owners : OwnerLists,
             subs : SeqsUpTo(SubShares, MaxSubShares)]

\* LRShare.is_active
is_active(share) == share.status = 0

RECURSIVE ExtendAll(_, _)
\* owners.extend(...) over a list of owner lists, in order.
ExtendAll(acc, lists) ==
    IF lists = <<>> THEN acc ELSE ExtendAll(acc \o Head(lists), Tail(lists))

\* OwnershipSheetB.get_current_owners: the owners of the active shares.
get_current_owners(shares) ==
    ExtendAll(<<>>, [i \in 1..Len(shares) |->
                        IF is_active(shares[i]) THEN shares[i].owners ELSE <<>>])

\* LandRegistryUnitDetailed.get_all_owners
get_all_owners(shares) == get_current_owners(shares)

OwnersInit ==
    /\ sheetB \in SeqsUpTo(LRShares, MaxShares)
    /\ owners = NotCalled
    /\ IdleBut("owners")

GetAllOwners ==
    /\ ~owners.done
    /\ owners' = Returned(get_all_owners(sheetB))
    /\ UNCHANGED <<sheetB, cacheVars, gmlVars, clientVars, batchVars, raceVars, entityVars,
                   opVars>>

OwnersNext == GetAllOwners

SpecOwners == OwnersInit /\ [][OwnersNext]_vars

(***************************************************************************)
(* GML parser (src/cadastral_api/gis/parser.py).  A text is a sequence of  *)
(* characters; a child element is [elem, text], with text <<>> for an      *)
(* element without text (ElementTree's text None).  A featureMember is     *)
(* [cestice, id, broj, area, ko, geom]: whether it has an oss:CESTICE      *)
(* child, the four scalar children and the geometry block.                 *)
(***************************************************************************)
Whitespace == {" "}
DigitChars == {"0", "1", "2", "3", "4", "5", "6", "7", "8", "9"}

NoElem == [elem |-> FALSE, text |-> <<>>]
Elem(t) == [elem |-> TRUE, text |-> t]

RECURSIVE lstrip(_)
lstrip(t) == IF t # <<>> /\ Head(t) \in Whitespace THEN lstrip(Tail(t)) ELSE t

RECURSIVE rstrip(_)
rstrip(t) ==
    IF t # <<>> /\ t[Len(t)] \in Whitespace THEN rstrip(SubSeq(t, 1, Len(t) - 1)) ELSE t

\* str.strip()
strip(t) == rstrip(lstrip(t))

\* str.startswith
startswith(t, prefix) ==
    Len(prefix) <= Len(t) /\ SubSeq(t, 1, Len(prefix)) = prefix

\* float(t) raises ValueError unless t is a decimal numeral (the texts drawn here
\* carry no sign and no exponent).
IsFloat(t) ==
    /\ \A i \in 1..Len(t) : t[i] \in DigitChars \cup {"."}
    /\ \E i \in 1..Len(t) : t[i] \in DigitChars
    /\ Cardinality({i \in 1..Len(t) : t[i] = "."}) <= 1

\* GMLParser._get_text: the stripped text of the child, "" when it is absent or empty.
_get_text(child) == IF child.elem /\ child.text # <<>> THEN strip(child.text) ELSE <<>>

\* The geometry blocks a record may carry: no oss:GEOM, a GEOM without gml:Polygon,
\* a Polygon without gml:coordinates, or a Polygon with srsName and coordinates.
NoGeom == [geom |-> FALSE, polygon |-> FALSE, coords |-> FALSE, srs |-> <<>>, tokens |-> <<>>]
NoPolygon == [NoGeom EXCEPT !.geom = TRUE]
NoCoordinates == [NoPolygon EXCEPT !.polygon = TRUE]
Polygon(srs, tokens) ==
    [geom |-> TRUE, polygon |-> TRUE, coords |-> TRUE, srs |-> srs, tokens |-> tokens]

\* A coordinate token "x,y" is [comma, x, y]; a token without a comma has comma FALSE.
Token(x, y) == [comma |-> TRUE, x |-> x, y |-> y]

\* _parse_coordinates giving up the whole list when a token does not parse.
_parse_coordinates_all_or_nothing(tokens) ==
    IF \A i \in 1..Len(tokens) :
            tokens[i].comma /\ IsFloat(strip(tokens[i].x)) /\ IsFloat(strip(tokens[i].y))
    THEN [i \in 1..Len(tokens) |-> [x |-> strip(tokens[i].x), y |-> strip(tokens[i].y)]]
    ELSE <<>>

RECURSIVE _parse_coordinates(_)
\* GMLParser._parse_coordinates: the tokens that are two floats, in order.
_parse_coordinates(tokens) ==
    IF tokens = <<>> THEN <<>>
    ELSE LET pair == Head(tokens)
             rest == _parse_coordinates(Tail(tokens))
         IN  IF ~pair.comma THEN rest
             ELSE IF IsFloat(strip(pair.x)) /\ IsFloat(strip(pair.y))
                  THEN <<[x |-> strip(pair.x), y |-> strip(pair.y)]>> \o rest
                  ELSE rest

\* The srsName normalisation of _parse_parcel: a URI ending in epsg.xml#<code>
\* becomes EPSG:<code>, anything else is passed through.
NormalizeSrs(srs) ==
    IF srs # <<>> /\ Head(srs) = "epsg.xml#" THEN <<"EPSG:">> \o Tail(srs) ELSE srs

\* The try block of GMLParser._parse_parcel.
_parse_parcel_body(c) ==
    LET cestica_id == _get_text(c.id)
        broj_cestice == _get_text(c.broj)
        povrsina == _get_text(c.area)
        maticni_broj == _get_text(c.ko)
    IN  IF cestica_id = <<>> \/ broj_cestice = <<>> \/ povrsina = <<>> \/ maticni_broj = <<>>
        THEN Returned(None)
        ELSE IF ~c.geom.geom THEN Returned(None)
        ELSE IF ~c.geom.polygon THEN Returned(None)
        ELSE IF ~c.geom.coords THEN Returned(None)
        ELSE IF ~IsFloat(povrsina) THEN Raised("ValueError")
        ELSE Returned([cestica_id |-> cestica_id,
                       broj_cestice |-> broj_cestice,
                       povrsina_graficka |-> povrsina,
                       maticni_broj_ko |-> maticni_broj,
                       coordinates |-> _parse_coordinates(c.geom.tokens),
                       srs_name |-> NormalizeSrs(c.geom.srs)])

\* GMLParser._parse_parcel: ValueError and AttributeError become None.
_parse_parcel(c) ==
    LET r == _parse_parcel_body(c)
    IN  IF ~r.ok /\ r.error \in {"ValueError", "AttributeError"} THEN Returned(None) ELSE r

\* A partial match, as the registry search makes: the text starts with the number.
NumberStartsWith(text, parcel_number) == startswith(text, parcel_number)

\* The comparison of get_parcel_by_number: broj_elem.text == parcel_number.
NumberMatches(text, parcel_number) == text = parcel_number

RECURSIVE get_parcel_by_number(_, _)
\* GMLParser.get_parcel_by_number over the featureMember records d.
get_parcel_by_number(d, parcel_number) ==
    IF d = <<>> THEN Returned(None)
    ELSE LET feature == Head(d)
         IN  IF ~feature.cestice THEN get_parcel_by_number(Tail(d), parcel_number)
             ELSE IF ~feature.broj.elem \/ feature.broj.text = <<>>
                  THEN get_parcel_by_number(Tail(d), parcel_number)
             ELSE IF NumberMatches(feature.broj.text, parcel_number)
                  THEN _parse_parcel(feature)
             ELSE get_parcel_by_number(Tail(d), parcel_number)

RECURSIVE get_all_parcels_until_bad(_, _)
\* The loop of get_all_parcels giving up at the first record that does not parse.
get_all_parcels_until_bad(d, acc) ==
    IF d = <<>> THEN Returned(acc)
    ELSE LET feature == Head(d)
         IN  IF ~feature.cestice THEN get_all_parcels_until_bad(Tail(d), acc)
             ELSE LET parcel == _parse_parcel(feature)
                  IN  IF ~parcel.ok THEN parcel
                      ELSE IF parcel.value # None
                           THEN get_all_parcels_until_bad(Tail(d), Append(acc, parcel.value))
                           ELSE Returned(acc)

RECURSIVE get_all_parcels_from(_, _)
\* The loop of GMLParser.get_all_parcels, parcels being the list built so far.
get_all_parcels_from(d, acc) ==
    IF d = <<>> THEN Returned(acc)
    ELSE LET feature == Head(d)
         IN  IF ~feature.cestice THEN get_all_parcels_from(Tail(d), acc)
             ELSE LET parcel == _parse_parcel(feature)
                  IN  IF ~parcel.ok THEN parcel
                      ELSE IF parcel.value # None
                           THEN get_all_parcels_from(Tail(d), Append(acc, parcel.value))
                           ELSE get_all_parcels_from(Tail(d), acc)

\* GMLParser.get_all_parcels
get_all_parcels(d) == get_all_parcels_from(d, <<>>)

\* The records drawn: a well-formed record, with one of these parcel numbers ...
BrojTexts == {<<"1">>, <<"1", "2">>, <<" ", "1">>}

WellFormed(broj) ==
    [cestice |-> TRUE,
     id |-> Elem(<<"id">>),
     broj |-> Elem(broj),
     area |-> Elem(<<"5", ".", "0">>),
     ko |-> Elem(<<"3", "3", "4", "9", "7", "9">>),
     geom |-> Polygon(<<"epsg.xml#", "3765">>,
                      <<Token(<<"1">>, <<"2">>), Token(<<"abc">>, <<"def">>),
                        [comma |-> FALSE, x |-> <<"7">>, y |-> <<>>],
                        Token(<<"3", ".", "5">>, <<"4">>)>>)]

\* ... or that record with one defect.
Defective(r) ==
    {[r EXCEPT !.id = NoElem],
     [r EXCEPT !.broj = NoElem],
     [r EXCEPT !.area = NoElem],
     [r EXCEPT !.area = Elem(<<"a", "b", "c">>)],
     [r EXCEPT !.ko = Elem(<<" ">>)],
     [r EXCEPT !.geom = NoGeom],
     [r EXCEPT !.geom = NoPolygon],
     [r EXCEPT !.geom = NoCoordinates]}

Features ==
    {[WellFormed(<<"1">>) EXCEPT !.cestice = FALSE]}
        \cup {WellFormed(b) : b \in BrojTexts}
        \cup UNION {Defective(WellFormed(b)) : b \in BrojTexts}

\* The record at position i has the internal id i.
Numbered(d) ==
    [i \in 1..Len(d) |->
        IF d[i].id.elem THEN [d[i] EXCEPT !.id = Elem(<<ToString(i)>>)] ELSE d[i]]

Queries == BrojTexts \cup {<<"2">>}

GmlInit ==
    /\ doc \in {Numbered(d) : d \in SeqsUpTo(Features, MaxFeatures)}
    /\ query \in Queries
    /\ found = NotCalled
    /\ parcels = NotCalled
    /\ IdleBut("gml")

GetParcelByNumber ==
    /\ ~found.done
    /\ found' = get_parcel_by_number(doc, query)
    /\ UNCHANGED <<doc, query, parcels, cacheVars, ownersVars, clientVars, batchVars, raceVars, entityVars,
                   opVars>>

GetAllParcels ==
    /\ ~parcels.done
    /\ parcels' = get_all_parcels(doc)
    /\ UNCHANGED <<doc, query, found, cacheVars, ownersVars, clientVars, batchVars, raceVars, entityVars,
                   opVars>>

GmlNext == GetParcelByNumber \/ GetAllParcels

SpecGml == GmlInit /\ [][GmlNext]_vars

(***************************************************************************)
(* The coordinates text of a record: _parse_coordinates splits it at       *)
(* whitespace and each token at its first comma.                           *)
(***************************************************************************)
\* str.split(): the maximal runs of non-whitespace characters.
RECURSIVE split(_)
split(text) ==
    LET t == lstrip(text)
        stops == {i \in 1..Len(t) : t[i] \in Whitespace}
        end == IF stops = {} THEN Len(t)
               ELSE (CHOOSE i \in stops : \A j \in stops : i <= j) - 1
    IN  IF t = <<>> THEN <<>>
        ELSE <<SubSeq(t, 1, end)>> \o split(SubSeq(t, end + 1, Len(t)))

\* `"," not in pair` and pair.split(",", 1)
split_pair(pair) ==
    LET commas == {i \in 1..Len(pair) : pair[i] = ","}
    IN  IF commas = {} THEN [comma |-> FALSE, x |-> pair, y |-> <<>>]
        ELSE LET k == CHOOSE i \in commas : \A j \in commas : i <= j
             IN  Token(SubSeq(pair, 1, k - 1), SubSeq(pair, k + 1, Len(pair)))

\* pairs = coord_text.strip().split(), each split at its first comma.
pairs(coord_text) ==
    [i \in 1..Len(split(strip(coord_text))) |-> split_pair(split(strip(coord_text))[i])]

TokenTexts ==
    {<<"1", ",", "2">>, <<"3", ".", "5", ",", "4">>, <<"x", ",", "1">>, <<"7">>,
     <<"1", ",", "2", ",", "3">>, <<"1", ",">>, <<".", ",", "1">>}

\* The tokens with the separators of the file between them.
RECURSIVE JoinTokens(_, _)
JoinTokens(tokens, sep) ==
    IF tokens = <<>> THEN <<>>
    ELSE IF Len(tokens) = 1 THEN Head(tokens)
    ELSE Head(tokens) \o sep \o JoinTokens(Tail(tokens), sep)

CoordTexts ==
    {JoinTokens(ts, <<" ">>) : ts \in SeqsUpTo(TokenTexts, MaxTokens)}
        \cup {<<" ">> \o JoinTokens(ts, <<" ", " ">>) \o <<" ">> :
                  ts \in SeqsUpTo(TokenTexts, MaxTokens)}

\* The record of the file whose gml:coordinates element holds coord_text.
RecordWith(coord_text) ==
    [WellFormed(<<"1">>) EXCEPT !.geom.tokens = pairs(coord_text)]

CoordinatesInit ==
    /\ entity \in [coord_text : CoordTexts]
    /\ derived = NotCalled
    /\ IdleBut("entity")

ParseCoordinates ==
    /\ derived = NotCalled
    /\ derived' = [op |-> "_parse_coordinates",
                   result |-> Returned(_parse_coordinates(pairs(entity.coord_text)))]
    /\ UNCHANGED <<entity, cacheVars, ownersVars, gmlVars, clientVars, batchVars,
                   raceVars, opVars>>

ParseParcel ==
    /\ derived = NotCalled
    /\ derived' = [op |-> "_parse_parcel",
                   result |-> _parse_parcel(RecordWith(entity.coord_text))]
    /\ UNCHANGED <<entity, cacheVars, ownersVars, gmlVars, clientVars, batchVars,
                   raceVars, opVars>>

CoordinatesNext == ParseCoordinates \/ ParseParcel

SpecCoordinates == CoordinatesInit /\ [][CoordinatesNext]_vars

(***************************************************************************)
(* API client (api/src/cadastral_api/client/api_client.py).  A client      *)
(* method is an operator of its arguments and of the response _make_request*)
(* gets for it: Raised(e) when _make_request raises e, Returned(data) with *)
(* the JSON data otherwise.  It yields [res, reqs]: what the method        *)
(* returns or raises, and the requests it sent, in order.                  *)
(***************************************************************************)
\* ErrorType
ErrorType == {"connection", "timeout", "rate_limit", "invalid_response",
              "parcel_not_found", "municipality_not_found", "server_error"}

\* ErrorType.LR_UNIT_NOT_FOUND, used by the client and the CLI.
LR_UNIT_NOT_FOUND == "lr_unit_not_found"

\* CadastralAPIError(error_type, details)
CadastralAPIError(error_type, details) ==
    [exception |-> "CadastralAPIError", error_type |-> error_type, details |-> details]

\* An exception that is no CadastralAPIError.
UnexpectedError == [exception |-> "RuntimeError"]

\* What _make_request raises: a CadastralAPIError for a timeout, a connection or
\* HTTP error, exhausted retries or a body that is no JSON.
RequestFailures(endpoint) ==
    {CadastralAPIError("timeout", [endpoint |-> endpoint]),
     CadastralAPIError("connection", [endpoint |-> endpoint]),
     CadastralAPIError("server_error", [status_code |-> 500]),
     CadastralAPIError("invalid_response", [endpoint |-> endpoint])}

\* A JSON item that fails model_validate.
InvalidItem == [valid |-> FALSE]

\* The empty JSON body (None, [] or {}): "not response_data".
EmptyData == <<>>

Step(res, reqs) == [res |-> res, reqs |-> reqs]

\* [model_validate(item) for item in response_data], or the ValidationError
\* turned into invalid_response.
ValidateList(endpoint, data) ==
    IF \E i \in 1..Len(data) : ~data[i].valid
    THEN Raised(CadastralAPIError("invalid_response",
                                  [endpoint |-> endpoint, reason |-> "validation_failed"]))
    ELSE Returned(data)

\* CadastralAPIClient.search_municipality(search_term)
search_municipality(search_term, resp) ==
    LET endpoint == "/search-cad-parcels/municipalities"
        reqs == <<[endpoint |-> endpoint, search |-> search_term]>>
    IN  IF ~resp.ok THEN Step(resp, reqs)
        ELSE IF resp.value = EmptyData
        THEN Step(Raised(CadastralAPIError("municipality_not_found",
                                           [search_term |-> search_term])), reqs)
        ELSE Step(ValidateList(endpoint, resp.value), reqs)

\* CadastralAPIClient.search_parcel
search_parcel(parcel_number, municipality_reg_num, resp) ==
    LET endpoint == "/search-cad-parcels/parcel-numbers"
        reqs == <<[endpoint |-> endpoint, search |-> parcel_number,
                   municipalityRegNum |-> municipality_reg_num]>>
    IN  IF ~resp.ok THEN Step(resp, reqs)
        ELSE IF resp.value = EmptyData
        THEN Step(Raised(CadastralAPIError("parcel_not_found",
                             [parcel_number |-> parcel_number,
                              municipality_reg_num |-> municipality_reg_num])), reqs)
        ELSE Step(ValidateList(endpoint, resp.value), reqs)

\* CadastralAPIClient.get_parcel_info
get_parcel_info(parcel_id, resp) ==
    LET endpoint == "/cad/parcel-info"
        reqs == <<[endpoint |-> endpoint, parcelId |-> parcel_id]>>
    IN  IF ~resp.ok THEN Step(resp, reqs)
        ELSE IF resp.value = EmptyData
        THEN Step(Raised(CadastralAPIError("invalid_response",
                             [endpoint |-> endpoint, parcel_id |-> parcel_id,
                              reason |-> "empty_response"])), reqs)
        ELSE IF ~resp.value.valid
        THEN Step(Raised(CadastralAPIError("invalid_response",
                             [endpoint |-> endpoint, parcel_id |-> parcel_id,
                              reason |-> "validation_failed"])), reqs)
        ELSE Step(resp, reqs)

\* The for loop of get_parcel_by_number matching partially (the number asked for
\* is a prefix) instead of exactly.
FirstPartial(search_results, parcel_number) ==
    LET hits == {i \in 1..Len(search_results) :
                    startswith(search_results[i].parcel_number, parcel_number)}
    IN  IF hits = {} THEN 0 ELSE CHOOSE i \in hits : \A j \in hits : i <= j

\* The index of the first search result whose parcel_number is the one asked
\* for, 0 when there is none (the for loop of get_parcel_by_number).
FirstExact(search_results, parcel_number) ==
    LET hits == {i \in 1..Len(search_results) :
                    search_results[i].parcel_number = parcel_number}
    IN  IF hits = {} THEN 0 ELSE CHOOSE i \in hits : \A j \in hits : i <= j

\* CadastralAPIClient.get_parcel_by_number: rs answers the search, ri the detail
\* request.
client_get_parcel_by_number(parcel_number, municipality_reg_num, exact_match, rs, ri) ==
    LET s == search_parcel(parcel_number, municipality_reg_num, rs)
    IN  IF ~s.res.ok THEN s
        ELSE IF s.res.value = <<>> THEN Step(Returned(None), s.reqs)
        ELSE IF exact_match
        THEN LET i == FirstExact(s.res.value, parcel_number)
             IN  IF i = 0 THEN Step(Returned(None), s.reqs)
                 ELSE LET d == get_parcel_info(s.res.value[i].parcel_id, ri)
                      IN  Step(d.res, s.reqs \o d.reqs)
        ELSE LET d == get_parcel_info(s.res.value[1].parcel_id, ri)
             IN  Step(d.res, s.reqs \o d.reqs)

\* The data source's answers.  Parcel numbers and municipality names are texts.
ParcelNumbers == {<<"1">>, <<"1", "2">>, <<"1", "2", "/", "3">>}

ParcelItems ==
    [valid : {TRUE}, parcel_id : {"p1", "p2"}, parcel_number : ParcelNumbers]
        \cup {InvalidItem}

Responses(endpoint, datas) ==
    {Raised(e) : e \in RequestFailures(endpoint) \cup {UnexpectedError}}
        \cup {Returned(d) : d \in datas}

SearchParcelResponses ==
    Responses("/search-cad-parcels/parcel-numbers", SeqsUpTo(ParcelItems, MaxResults))

\* A parcel's land-registry unit reference, or none.
LrUnitRefs == {None, [lr_unit_number |-> "769", main_book_id |-> 21277]}

ParcelInfos == [valid : {TRUE}, parcel_number : {<<"1", "2">>}, lr_unit : LrUnitRefs]

ParcelInfoResponses ==
    Responses("/cad/parcel-info", {EmptyData, InvalidItem} \cup ParcelInfos)

ParcelByNumberInit ==
    /\ call \in [parcel_number : {<<"1">>, <<"1", "2">>},
                 municipality_reg_num : {"334979"},
                 exact_match : BOOLEAN]
    /\ remote \in [search : SearchParcelResponses, info : ParcelInfoResponses]
    /\ outcome = NotCalled
    /\ IdleBut("client")

GetParcelByNumberCall ==
    /\ ~outcome.done
    /\ LET r == client_get_parcel_by_number(call.parcel_number, call.municipality_reg_num,
                                            call.exact_match, remote.search, remote.info)
       IN  outcome' = [done |-> TRUE, res |-> r.res, reqs |-> r.reqs]
    /\ UNCHANGED <<call, remote, cacheVars, ownersVars, gmlVars, batchVars, raceVars, entityVars,
                   opVars>>

ParcelByNumberNext == GetParcelByNumberCall

SpecParcelByNumber == ParcelByNumberInit /\ [][ParcelByNumberNext]_vars

(***************************************************************************)
(* get_lr_unit_detailed and get_lr_unit_from_parcel.                       *)
(***************************************************************************)
\* str.isdigit(): not empty and every character a digit.
isdigit(t) == t # <<>> /\ \A i \in 1..Len(t) : t[i] \in DigitChars

\* A municipality argument is a str or (by its annotation) an int.
StrArg(t) == [type |-> "str", text |-> t]
IntArg(t) == [type |-> "int", text |-> t]

\* The JSON body of /lr/lr-unit is a list of units or one unit.
JsonList(items) == [is_list |-> TRUE, items |-> items]

\* CadastralAPIClient.get_lr_unit_detailed
get_lr_unit_detailed(lr_unit_number, main_book_id, historical_overview, resp) ==
    LET endpoint == "/lr/lr-unit"
        reqs == <<[endpoint |-> endpoint, lrUnitNumber |-> lr_unit_number,
                   mainBookId |-> main_book_id,
                   historicalOverview |-> historical_overview]>>
        invalid == CadastralAPIError("invalid_response",
                       [endpoint |-> endpoint, lr_unit_number |-> lr_unit_number,
                        main_book_id |-> main_book_id, reason |-> "validation_failed"])
    IN  IF ~resp.ok THEN Step(resp, reqs)
        ELSE IF resp.value = EmptyData \/ resp.value = JsonList(<<>>)
        THEN Step(Raised(CadastralAPIError(LR_UNIT_NOT_FOUND,
                             [lr_unit_number |-> lr_unit_number,
                              main_book_id |-> main_book_id,
                              reason |-> "empty_response"])), reqs)
        ELSE LET response_data == IF resp.value.is_list THEN resp.value.items[1]
                                  ELSE resp.value
             IN  IF ~response_data.valid THEN Step(Raised(invalid), reqs)
                 ELSE Step(Returned(response_data), reqs)

\* get_lr_unit_from_parcel reporting a parcel without a unit reference as a parcel
\* that was not found.
get_lr_unit_from_parcel_one_reason(parcel_number, municipality, historical_overview, rm, rs, ri, ru) ==
    IF municipality.type # "str"
    THEN Step(Raised([exception |-> "AttributeError"]), <<>>)
    ELSE
    LET m == IF ~isdigit(municipality.text)
             THEN search_municipality(municipality.text, rm)
             ELSE Step(Returned(<<[municipality_reg_num |-> municipality.text]>>), <<>>)
    IN  IF ~m.res.ok THEN m
        ELSE
        LET p == client_get_parcel_by_number(parcel_number,
                     m.res.value[1].municipality_reg_num, TRUE, rs, ri)
            reqs == m.reqs \o p.reqs
            not_found == CadastralAPIError("parcel_not_found",
                             [parcel_number |-> parcel_number,
                              municipality |-> municipality.text])
        IN  IF ~p.res.ok THEN Step(p.res, reqs)
            ELSE IF p.res.value = None THEN Step(Raised(not_found), reqs)
            ELSE IF p.res.value.lr_unit = None THEN Step(Raised(not_found), reqs)
            ELSE LET u == get_lr_unit_detailed(p.res.value.lr_unit.lr_unit_number,
                              p.res.value.lr_unit.main_book_id, historical_overview, ru)
                 IN  Step(u.res, reqs \o u.reqs)

\* CadastralAPIClient.get_lr_unit_from_parcel: rm, rs, ri and ru answer the
\* municipality search, the parcel search, the parcel detail and the unit detail.
get_lr_unit_from_parcel(parcel_number, municipality, historical_overview, rm, rs, ri, ru) ==
    IF municipality.type # "str"
    THEN Step(Raised([exception |-> "AttributeError"]), <<>>)
    ELSE
    LET m == IF ~isdigit(municipality.text)
             THEN search_municipality(municipality.text, rm)
             ELSE Step(Returned(<<[municipality_reg_num |-> municipality.text]>>), <<>>)
    IN  IF ~m.res.ok THEN m
        ELSE
        LET p == client_get_parcel_by_number(parcel_number,
                     m.res.value[1].municipality_reg_num, TRUE, rs, ri)
            reqs == m.reqs \o p.reqs
        IN  IF ~p.res.ok THEN Step(p.res, reqs)
            ELSE IF p.res.value = None
            THEN Step(Raised(CadastralAPIError("parcel_not_found",
                                 [parcel_number |-> parcel_number,
                                  municipality |-> municipality.text])), reqs)
            ELSE IF p.res.value.lr_unit = None
            THEN Step(Raised(CadastralAPIError(LR_UNIT_NOT_FOUND,
                                 [parcel_number |-> parcel_number,
                                  municipality |-> municipality.text,
                                  reason |-> "parcel_has_no_lr_unit"])), reqs)
            ELSE LET u == get_lr_unit_detailed(p.res.value.lr_unit.lr_unit_number,
                              p.res.value.lr_unit.main_book_id, historical_overview, ru)
                 IN  Step(u.res, reqs \o u.reqs)

\* Municipality search results: key2 and value1 ("<code> <name>").
MunicipalityItems ==
    {[valid |-> TRUE, municipality_reg_num |-> <<"3", "4">>,
      code_and_name |-> <<"3", "4", " ", "S", "A">>],
     [valid |-> TRUE, municipality_reg_num |-> <<"3", "5">>,
      code_and_name |-> <<"3", "5", " ", "S", "A", "L">>]}

MunicipalityResponses ==
    Responses("/search-cad-parcels/municipalities",
              SeqsUpTo(MunicipalityItems, MaxResults) \cup {<<InvalidItem>>})

\* The parcel search results get_lr_unit_from_parcel is tried on.
LrParcelItems ==
    {[valid |-> TRUE, parcel_id |-> "p1", parcel_number |-> <<"1", "2">>],
     [valid |-> TRUE, parcel_id |-> "p2", parcel_number |-> <<"1", "2", "/", "3">>]}

LrSearchParcelResponses ==
    Responses("/search-cad-parcels/parcel-numbers", SeqsUpTo(LrParcelItems, MaxResults))

LrUnits == {[valid |-> TRUE, is_list |-> FALSE, lr_unit_number |-> "769"]}

LrUnitResponses ==
    Responses("/lr/lr-unit",
              {EmptyData, JsonList(<<>>), [valid |-> FALSE, is_list |-> FALSE]}
                  \cup LrUnits \cup {JsonList(<<u>>) : u \in LrUnits})

MunicipalityArgs ==
    {StrArg(<<"3", "4">>), StrArg(<<"S", "A">>), StrArg(<<>>), IntArg(<<"3", "4">>)}

LrUnitInit ==
    /\ call \in [parcel_number : {<<"1", "2">>},
                 municipality : MunicipalityArgs,
                 historical_overview : {FALSE}]
    /\ remote \in [municipalities : MunicipalityResponses,
                   search : LrSearchParcelResponses,
                   info : ParcelInfoResponses,
                   unit : LrUnitResponses]
    /\ outcome = NotCalled
    /\ IdleBut("client")

GetLrUnitFromParcelCall ==
    /\ ~outcome.done
    /\ LET r == get_lr_unit_from_parcel(call.parcel_number, call.municipality,
                    call.historical_overview, remote.municipalities, remote.search,
                    remote.info, remote.unit)
       IN  outcome' = [done |-> TRUE, res |-> r.res, reqs |-> r.reqs]
    /\ UNCHANGED <<call, remote, cacheVars, ownersVars, gmlVars, batchVars, raceVars, entityVars,
                   opVars>>

LrUnitNext == GetLrUnitFromParcelCall

SpecLrUnit == LrUnitInit /\ [][LrUnitNext]_vars

(***************************************************************************)
(* The two _resolve_municipality functions of the CLI: the strict one of   *)
(* commands/search.py and the one of batch_processor.py.                   *)
(***************************************************************************)
LowerChars == <<"a", "b", "c", "d", "e", "f", "g", "h", "i", "j", "k", "l", "m",
                "n", "o", "p", "q", "r", "s", "t", "u", "v", "w", "x", "y", "z">>
UpperChars == <<"A", "B", "C", "D", "E", "F", "G", "H", "I", "J", "K", "L", "M",
                "N", "O", "P", "Q", "R", "S", "T", "U", "V", "W", "X", "Y", "Z">>

\* str.upper()
upper(t) ==
    [i \in 1..Len(t) |->
        IF \E k \in 1..26 : LowerChars[k] = t[i]
        THEN UpperChars[CHOOSE k \in 1..26 : LowerChars[k] = t[i]]
        ELSE t[i]]

\* MunicipalitySearchResult.municipality_name: code_and_name.split(" ", 1)[1], or
\* all of code_and_name when it has no space.
municipality_name(code_and_name) ==
    LET spaces == {i \in 1..Len(code_and_name) : code_and_name[i] = " "}
    IN  IF spaces = {} THEN code_and_name
        ELSE SubSeq(code_and_name,
                    (CHOOSE i \in spaces : \A j \in spaces : i <= j) + 1,
                    Len(code_and_name))

SystemExit(code) == [exception |-> "SystemExit", code |-> code]

\* client.find_municipality(search_term): the results of the search, or the
\* error of the request.
find_municipality(search_term, resp) ==
    Step(resp, <<[method |-> "find_municipality", search_term |-> search_term]>>)

\* The strict _resolve_municipality falling back to the first result.
_resolve_municipality_first(municipality, resp) ==
    IF isdigit(municipality) THEN Step(Returned(municipality), <<>>)
    ELSE LET f == find_municipality(municipality, resp)
         IN  IF ~f.res.ok
             THEN IF f.res.error.exception = "CadastralAPIError"
                  THEN Step(Raised(SystemExit(1)), f.reqs)
                  ELSE f
             ELSE IF f.res.value = <<>> THEN Step(Raised(SystemExit(1)), f.reqs)
             ELSE Step(Returned(f.res.value[1].municipality_reg_num), f.reqs)

\* _resolve_municipality of commands/search.py
_resolve_municipality(municipality, resp) ==
    IF isdigit(municipality) THEN Step(Returned(municipality), <<>>)
    ELSE LET f == find_municipality(municipality, resp)
         IN  IF ~f.res.ok
             THEN IF f.res.error.exception = "CadastralAPIError"
                  THEN Step(Raised(SystemExit(1)), f.reqs)
                  ELSE f
             ELSE IF f.res.value = <<>> THEN Step(Raised(SystemExit(1)), f.reqs)
             ELSE IF Len(f.res.value) > 1 THEN Step(Raised(SystemExit(1)), f.reqs)
             ELSE Step(Returned(f.res.value[1].municipality_reg_num), f.reqs)

\* The loop of the batch _resolve_municipality comparing the names as they are.
FirstNamed_case_sensitive(results, municipality) ==
    LET hits == {i \in 1..Len(results) :
                    municipality_name(results[i].code_and_name) = municipality}
    IN  IF hits = {} THEN 0 ELSE CHOOSE i \in hits : \A j \in hits : i <= j

\* The index of the first result whose name is the input, letter case aside; 0
\* when there is none.
FirstNamed(results, municipality) ==
    LET hits == {i \in 1..Len(results) :
                    upper(municipality_name(results[i].code_and_name))
                        = upper(municipality)}
    IN  IF hits = {} THEN 0 ELSE CHOOSE i \in hits : \A j \in hits : i <= j

\* _resolve_municipality of batch_processor.py
batch_resolve_municipality(municipality, resp) ==
    IF isdigit(municipality) /\ Len(municipality) = 6
    THEN Step(Returned(municipality), <<>>)
    ELSE LET r == search_municipality(municipality, resp)
         IN  IF ~r.res.ok THEN r
             ELSE IF r.res.value = <<>>
             THEN Step(Raised(CadastralAPIError("municipality_not_found",
                                                [search_term |-> municipality])), r.reqs)
             ELSE LET i == FirstNamed(r.res.value, municipality)
                  IN  IF i # 0
                      THEN Step(Returned(r.res.value[i].municipality_reg_num), r.reqs)
                      ELSE Step(Returned(r.res.value[1].municipality_reg_num), r.reqs)

\* The names and codes the resolvers are tried on.
MunicipalityTexts ==
    {<<"3", "3", "4", "9", "7", "9">>, <<"3", "4">>, <<"S", "A">>, <<"s", "a">>,
     <<"S", "A", "L">>, <<"3", "S">>, <<>>}

FindResponses ==
    {Raised(e) : e \in RequestFailures("/search-cad-parcels/municipalities")
                       \cup {UnexpectedError,
                             CadastralAPIError("municipality_not_found", <<>>)}}
        \cup {Returned(d) : d \in SeqsUpTo(MunicipalityItems, MaxResults)}

ResolveStrictInit ==
    /\ call \in [municipality : MunicipalityTexts]
    /\ remote \in [municipalities : FindResponses]
    /\ outcome = NotCalled
    /\ IdleBut("client")

ResolveStrictCall ==
    /\ ~outcome.done
    /\ LET r == _resolve_municipality(call.municipality, remote.municipalities)
       IN  outcome' = [done |-> TRUE, res |-> r.res, reqs |-> r.reqs]
    /\ UNCHANGED <<call, remote, cacheVars, ownersVars, gmlVars, batchVars, raceVars, entityVars,
                   opVars>>

ResolveStrictNext == ResolveStrictCall

SpecResolveStrict == ResolveStrictInit /\ [][ResolveStrictNext]_vars

ResolveBatchInit ==
    /\ call \in [municipality : MunicipalityTexts]
    /\ remote \in [municipalities : MunicipalityResponses]
    /\ outcome = NotCalled
    /\ IdleBut("client")

ResolveBatchCall ==
    /\ ~outcome.done
    /\ LET r == batch_resolve_municipality(call.municipality, remote.municipalities)
       IN  outcome' = [done |-> TRUE, res |-> r.res, reqs |-> r.reqs]
    /\ UNCHANGED <<call, remote, cacheVars, ownersVars, gmlVars, batchVars, raceVars, entityVars,
                   opVars>>

ResolveBatchNext == ResolveBatchCall

SpecResolveBatch == ResolveBatchInit /\ [][ResolveBatchNext]_vars

(***************************************************************************)
(* process_batch (cli/src/cadastral_cli/batch_processor.py).  One action   *)
(* is one pass of its for loop; the texts of the error messages are left   *)
(* out of the results.                                                     *)
(***************************************************************************)
\* ParcelInput: a direct parcel id, or a parcel number with a municipality.
is_direct_id(parcel_input) == "parcel_id" \in DOMAIN parcel_input

BatchResult(status, input, rest) ==
    [status |-> status, input |-> input, rest |-> rest]

BatchSummary(total, successful, failed, results) ==
    [total |-> total, successful |-> successful, failed |-> failed, results |-> results]

\* The lookup of one item: get_parcel_info for a direct id, else
\* _resolve_municipality and get_parcel_by_number(exact_match=True).
LookUp(parcel_input, rm, rs, ri) ==
    IF is_direct_id(parcel_input)
    THEN get_parcel_info(parcel_input.parcel_id, ri)
    ELSE LET m == batch_resolve_municipality(parcel_input.municipality, rm)
         IN  IF ~m.res.ok THEN m
             ELSE LET p == client_get_parcel_by_number(parcel_input.parcel_number,
                                                       m.res.value, TRUE, rs, ri)
                  IN  Step(p.res, m.reqs \o p.reqs)

\* The loop body re-raising an unexpected error whatever continue_on_error is.
process_batch_item_unexpected_raised(parcel_input, continue_on_error, rm, rs, ri) ==
    LET lookup == LookUp(parcel_input, rm, rs, ri)
        Item(result, raised) ==
            [result |-> result, raised |-> raised, lookup |-> lookup]
    IN  IF lookup.res.ok
        THEN IF lookup.res.value # None
             THEN Item(BatchResult("success", parcel_input,
                                   [parcel_data |-> lookup.res.value]), NotCalled)
             ELSE Item(BatchResult("error", parcel_input,
                                   [error_type |-> "parcel_not_found",
                                    error_message |-> "Parcel not found"]), NotCalled)
        ELSE IF lookup.res.error.exception = "CadastralAPIError"
        THEN Item(BatchResult("error", parcel_input,
                              [error_type |-> lookup.res.error.error_type]),
                  IF ~continue_on_error THEN lookup.res ELSE NotCalled)
        ELSE Item(BatchResult("error", parcel_input,
                              [error_type |-> "unexpected_error"]), lookup.res)

\* The body of the for loop of process_batch for one item: the result it
\* appends, the exception it lets out (if any), and the lookup it made.
process_batch_item(parcel_input, continue_on_error, rm, rs, ri) ==
    LET lookup == LookUp(parcel_input, rm, rs, ri)
        Item(result, raised) ==
            [result |-> result, raised |-> raised, lookup |-> lookup]
    IN  IF lookup.res.ok
        THEN IF lookup.res.value # None
             THEN Item(BatchResult("success", parcel_input,
                                   [parcel_data |-> lookup.res.value]), NotCalled)
             ELSE Item(BatchResult("error", parcel_input,
                                   [error_type |-> "parcel_not_found",
                                    error_message |-> "Parcel not found"]), NotCalled)
        ELSE IF lookup.res.error.exception = "CadastralAPIError"
        THEN Item(BatchResult("error", parcel_input,
                              [error_type |-> lookup.res.error.error_type]),
                  IF ~continue_on_error THEN lookup.res ELSE NotCalled)
        ELSE Item(BatchResult("error", parcel_input,
                              [error_type |-> "unexpected_error"]),
                  IF ~continue_on_error THEN lookup.res ELSE NotCalled)

\* The inputs and the answers of the data source process_batch is tried on.
ParcelInputs ==
    {[parcel_id |-> "p1"],
     [parcel_number |-> <<"1", "2">>, municipality |-> <<"3", "3", "4", "9", "7", "9">>],
     [parcel_number |-> <<"1", "2">>, municipality |-> <<"S", "A">>]}

BatchMunicipalityResponses ==
    {Raised(CadastralAPIError("timeout",
                              [endpoint |-> "/search-cad-parcels/municipalities"])),
     Returned(<<>>)}
        \cup {Returned(<<item>>) : item \in MunicipalityItems}

BatchSearchResponses ==
    {Raised(UnexpectedError),
     Raised(CadastralAPIError("server_error", [status_code |-> 500])),
     Returned(<<>>)}
        \cup {Returned(<<item>>) : item \in LrParcelItems}

BatchInfoResponses ==
    {Raised(CadastralAPIError("connection", [endpoint |-> "/cad/parcel-info"])),
     Returned(InvalidItem)}
        \cup {Returned(info) : info \in ParcelInfos}

BatchInit ==
    /\ batch \in [parcels : SeqsUpTo(ParcelInputs, MaxParcels),
                  continue_on_error : BOOLEAN]
    /\ loop = [i |-> 1, results |-> <<>>, successful |-> 0, failed |-> 0]
    /\ lookups = <<>>
    /\ summary = NotCalled
    /\ IdleBut("batch")

\* One pass of the for loop; an exception let out ends process_batch.
ProcessItem(rm, rs, ri) ==
    /\ ~summary.done
    /\ loop.i <= Len(batch.parcels)
    /\ LET r == process_batch_item(batch.parcels[loop.i], batch.continue_on_error,
                                   rm, rs, ri)
           ok == r.result.status = "success"
       IN  /\ loop' = [i |-> loop.i + 1,
                       results |-> Append(loop.results, r.result),
                       successful |-> loop.successful + (IF ok THEN 1 ELSE 0),
                       failed |-> loop.failed + (IF ok THEN 0 ELSE 1)]
           /\ lookups' = Append(lookups, [item |-> loop.i, res |-> r.lookup.res,
                                          reqs |-> r.lookup.reqs])
           /\ summary' = r.raised
    /\ UNCHANGED <<batch, cacheVars, ownersVars, gmlVars, clientVars, raceVars, entityVars,
                   opVars>>

\* The loop is over: return BatchSummary(...)
ReturnSummary ==
    /\ ~summary.done
    /\ loop.i > Len(batch.parcels)
    /\ summary' = Returned(BatchSummary(Len(batch.parcels), loop.successful,
                                        loop.failed, loop.results))
    /\ UNCHANGED <<batch, loop, lookups, cacheVars, ownersVars, gmlVars, clientVars, raceVars, entityVars,
                   opVars>>

BatchNext ==
    \/ \E rm \in BatchMunicipalityResponses, rs \in BatchSearchResponses,
          ri \in BatchInfoResponses : ProcessItem(rm, rs, ri)
    \/ ReturnSummary

SpecBatch == BatchInit /\ [][BatchNext]_vars

(***************************************************************************)
(* Two processes calling get_parcel_data(code, auto_download=True) for the *)
(* same municipality on one cache directory.  Each file-system call of the *)
(* code is one step.  Path.write_bytes and ZipFile.extract open the target *)
(* for writing (creating or truncating it) and fill it afterwards, so a    *)
(* file is first "partial" and then complete.                              *)
(***************************************************************************)
Procs == {"A", "B"}

PartialFile == "partial"

\* pc values: the next file-system or network call of get_parcel_data.
Running(pc) == [pc |-> pc, content |-> NoFile, result |-> NotCalled]
Finished(p, result) == [p EXCEPT !.pc = "done", !.result = result]

RaceInit ==
    /\ disk = [zip |-> NoFile, gml |-> NoFile]
    /\ procs = [p \in Procs |-> Running("is_cached")]
    /\ IdleBut("race")

\* get_parcel_data: `auto_download and not self.is_cached(code)`
RaceIsCached(p) ==
    /\ procs[p].pc = "is_cached"
    /\ procs' = [procs EXCEPT ![p].pc =
                    IF disk.zip # NoFile THEN "extract_gml" ELSE "download_exists"]
    /\ UNCHANGED <<disk, cacheVars, ownersVars, gmlVars, clientVars, batchVars, entityVars,
                   opVars>>

\* download_municipality: `if zip_path.exists() and not force: return zip_path`
RaceDownloadExists(p) ==
    /\ procs[p].pc = "download_exists"
    /\ procs' = [procs EXCEPT ![p].pc =
                    IF disk.zip # NoFile THEN "extract_gml" ELSE "http_get"]
    /\ UNCHANGED <<disk, cacheVars, ownersVars, gmlVars, clientVars, batchVars, entityVars,
                   opVars>>

\* download_municipality: client.get(url); response.raise_for_status()
RaceHttpGet(p, answer) ==
    /\ procs[p].pc = "http_get"
    /\ procs' = [procs EXCEPT ![p] =
                    IF answer = "http_error"
                    THEN Finished(procs[p], Raised("HTTPError"))
                    ELSE [procs[p] EXCEPT !.pc = "write_open", !.content = answer]]
    /\ UNCHANGED <<disk, cacheVars, ownersVars, gmlVars, clientVars, batchVars, entityVars,
                   opVars>>

\* zip_path.write_bytes(response.content): open(zip_path, "wb") ...
RaceWriteOpen(p) ==
    /\ procs[p].pc = "write_open"
    /\ disk' = [disk EXCEPT !.zip = PartialFile]
    /\ procs' = [procs EXCEPT ![p].pc = "write_close"]
    /\ UNCHANGED <<cacheVars, ownersVars, gmlVars, clientVars, batchVars, entityVars, opVars>>

\* ... write the content and close.
RaceWriteClose(p) ==
    /\ procs[p].pc = "write_close"
    /\ disk' = [disk EXCEPT !.zip = procs[p].content]
    /\ procs' = [procs EXCEPT ![p].pc = "extract_gml"]
    /\ UNCHANGED <<cacheVars, ownersVars, gmlVars, clientVars, batchVars, entityVars, opVars>>

\* extract_gml: the two exists() tests; an extracted file that exists is returned.
RaceExtractExists(p) ==
    /\ procs[p].pc = "extract_gml"
    /\ procs' = [procs EXCEPT ![p] =
                    IF disk.zip = NoFile
                    THEN Finished(procs[p], Raised("FileNotFoundError"))
                    ELSE IF disk.gml # NoFile
                    THEN Finished(procs[p], Returned([path |-> ParcelsGml,
                                                     file |-> disk.gml]))
                    ELSE [procs[p] EXCEPT !.pc = "zip_open"]]
    /\ UNCHANGED <<disk, cacheVars, ownersVars, gmlVars, clientVars, batchVars, entityVars,
                   opVars>>

\* extract_gml: zipfile.ZipFile(zip_path, "r") reads the archive's directory; a
\* truncated archive is a BadZipFile, a missing member a KeyError of extract.
RaceZipOpen(p) ==
    /\ procs[p].pc = "zip_open"
    /\ procs' = [procs EXCEPT ![p] =
                    IF disk.zip \in {PartialFile, NoFile}
                    THEN Finished(procs[p], Raised("BadZipFile"))
                    ELSE IF disk.zip = "archive_without_gml"
                    THEN Finished(procs[p], Raised("KeyError"))
                    ELSE [procs[p] EXCEPT !.pc = "gml_open"]]
    /\ UNCHANGED <<disk, cacheVars, ownersVars, gmlVars, clientVars, batchVars, entityVars,
                   opVars>>

\* zf.extract(filename, dir): open the target for writing ...
RaceGmlOpen(p) ==
    /\ procs[p].pc = "gml_open"
    /\ disk' = [disk EXCEPT !.gml = PartialFile]
    /\ procs' = [procs EXCEPT ![p].pc = "gml_close"]
    /\ UNCHANGED <<cacheVars, ownersVars, gmlVars, clientVars, batchVars, entityVars, opVars>>

\* ... copy the member into it, close, and return gml_path.
RaceGmlClose(p) ==
    /\ procs[p].pc = "gml_close"
    /\ disk' = [disk EXCEPT !.gml = "complete"]
    /\ procs' = [procs EXCEPT ![p] =
                    Finished(procs[p], Returned([path |-> ParcelsGml,
                                                 file |-> "complete"]))]
    /\ UNCHANGED <<cacheVars, ownersVars, gmlVars, clientVars, batchVars, entityVars, opVars>>

RaceNext ==
    \E p \in Procs :
        \/ RaceIsCached(p)
        \/ RaceDownloadExists(p)
        \/ \E answer \in HttpAnswers : RaceHttpGet(p, answer)
        \/ RaceWriteOpen(p)
        \/ RaceWriteClose(p)
        \/ RaceExtractExists(p)
        \/ RaceZipOpen(p)
        \/ RaceGmlOpen(p)
        \/ RaceGmlClose(p)

SpecRace == RaceInit /\ [][RaceNext]_vars

(***************************************************************************)
(* Possessor.ownership_decimal (api/src/cadastral_api/models/entities.py). *)
(* A float is represented by the rational number it approximates, in       *)
(* lowest terms.                                                           *)
(***************************************************************************)
\* int() of a text of digits.
RECURSIVE IntOf(_)
IntOf(t) ==
    IF t = <<>> THEN 0
    ELSE IntOf(SubSeq(t, 1, Len(t) - 1)) * 10
             + (CHOOSE k \in 0..9 : ToString(k) = t[Len(t)])

RECURSIVE GCD(_, _)
GCD(a, b) == IF b = 0 THEN a ELSE GCD(b, a % b)

Rational(n, d) == [num |-> n \div GCD(n, d), den |-> d \div GCD(n, d)]

\* fractions.Fraction(text) for texts without a decimal point or an exponent:
\* surrounding whitespace, an optional sign, digits, optionally "/" and digits.
Fraction(t) ==
    LET u == strip(t)
        signed == u # <<>> /\ u[1] \in {"-", "+"}
        body == IF signed THEN Tail(u) ELSE u
        sign == IF signed /\ u[1] = "-" THEN -1 ELSE 1
        slashes == {i \in 1..Len(body) : body[i] = "/"}
    IN  IF slashes = {}
        THEN IF isdigit(body)
             THEN Returned([num |-> sign * IntOf(body), den |-> 1])
             ELSE Raised("ValueError")
        ELSE LET k == CHOOSE i \in slashes : \A j \in slashes : i <= j
                 n == SubSeq(body, 1, k - 1)
                 d == SubSeq(body, k + 1, Len(body))
             IN  IF ~(isdigit(n) /\ isdigit(d)) THEN Raised("ValueError")
                 ELSE IF IntOf(d) = 0 THEN Raised("ZeroDivisionError")
                 ELSE LET r == Rational(IntOf(n), IntOf(d))
                      IN  Returned([num |-> sign * r.num, den |-> r.den])

\* A str value of an optional field (None when the field is absent).
Text(t) == [text |-> t]

\* ownership_decimal taking a zero share for an unspecified one.
ownership_decimal_zero_is_none(possessor) ==
    IF possessor.ownership = None \/ possessor.ownership = Text(<<>>)
    THEN Returned(None)
    ELSE LET frac == Fraction(possessor.ownership.text)
         IN  IF frac.ok
             THEN IF frac.value.num = 0 THEN Returned(None) ELSE Returned(frac.value)
             ELSE IF frac.error \in {"ValueError", "ZeroDivisionError"}
             THEN Returned(None)
             ELSE frac

\* Possessor.ownership_decimal
ownership_decimal(possessor) ==
    IF possessor.ownership = None \/ possessor.ownership = Text(<<>>)
    THEN Returned(None)
    ELSE LET frac == Fraction(possessor.ownership.text)
         IN  IF frac.ok THEN Returned(frac.value)
             ELSE IF frac.error \in {"ValueError", "ZeroDivisionError"}
             THEN Returned(None)
             ELSE frac

OwnershipChars == {"0", "1", "5", "/", " ", "x", "-"}

Possessors ==
    [name : {"Owner A"},
     ownership : {None} \cup {Text(t) : t \in SeqsUpTo(OwnershipChars, MaxOwnershipLen)}]

PossessorInit ==
    /\ entity \in Possessors
    /\ derived = NotCalled
    /\ IdleBut("entity")

OwnershipDecimal ==
    /\ ~derived.done
    /\ derived' = ownership_decimal(entity)
    /\ UNCHANGED <<entity, cacheVars, ownersVars, gmlVars, clientVars, batchVars,
                   raceVars, opVars>>

PossessorNext == OwnershipDecimal

SpecPossessor == PossessorInit /\ [][PossessorNext]_vars

(***************************************************************************)
(* OwnershipSheetB.total_ownership_accounted and LRShare.fraction_decimal. *)
(* A Python float (IEEE 754 binary64) below 16 is a sequence of bits, the  *)
(* bit at position p weighing 2^(int - p), of which at most `mantissa`     *)
(* from the first 1 on are set; results are rounded to nearest, ties to    *)
(* even.  The format is exact for the values used here (0 and 1/8 .. 16).  *)
(***************************************************************************)
FloatFormat == [int |-> 4, width |-> 60, mantissa |-> 53, limb |-> 14]

\* The bits as a tuple, each computed once.
FloatBits(f) == SubSeq(f, 1, FloatFormat.width)

FloatZero == FloatBits([p \in 1..FloatFormat.width |-> 0])
FloatOne == FloatBits([p \in 1..FloatFormat.width |-> IF p = FloatFormat.int THEN 1 ELSE 0])

\* bits + 2^(int - p): the carry stops at the last 0 at or before p.
AddBitAt(bits, p) ==
    LET stop == CHOOSE z \in 1..p :
                    bits[z] = 0 /\ \A q \in (z + 1)..p : bits[q] = 1
    IN  FloatBits([q \in 1..FloatFormat.width |->
            IF q = stop THEN 1 ELSE IF q > stop /\ q <= p THEN 0 ELSE bits[q]])

\* Rounding of an exact value (bits, and whether more is left beyond them) to
\* `mantissa` significant bits.
RoundFloat(bits, sticky) ==
    LET ones == {p \in 1..FloatFormat.width : bits[p] = 1}
    IN  IF ones = {} THEN bits
        ELSE LET first == CHOOSE p \in ones : \A q \in ones : p <= q
                 guard == first + FloatFormat.mantissa
             IN  IF guard > FloatFormat.width THEN bits
                 ELSE LET kept == FloatBits([p \in 1..FloatFormat.width |->
                                      IF p < guard THEN bits[p] ELSE 0])
                          more == sticky \/ \E p \in ones : p > guard
                      IN  IF bits[guard] = 1 /\ (more \/ bits[guard - 1] = 1)
                          THEN AddBitAt(kept, guard - 1)
                          ELSE kept

\* The fraction left / d by long division, `limb` bits at a time for k limbs,
\* and whether a remainder is left.
RECURSIVE DivLimbs(_, _, _)
DivLimbs(left, d, k) ==
    IF k = 0 THEN [limbs |-> <<>>, sticky |-> left # 0]
    ELSE LET rest == DivLimbs((left * 2^FloatFormat.limb) % d, d, k - 1)
         IN  [limbs |-> <<(left * 2^FloatFormat.limb) \div d>> \o rest.limbs,
              sticky |-> rest.sticky]

\* numerator / denominator of two ints (true division, correctly rounded).
FloatDiv(n, d) ==
    LET frac == FloatFormat.width - FloatFormat.int
        q == DivLimbs(n % d, d, frac \div FloatFormat.limb)
        bits == FloatBits([p \in 1..FloatFormat.width |->
                    IF p <= FloatFormat.int
                    THEN ((n \div d) \div 2^(FloatFormat.int - p)) % 2
                    ELSE (q.limbs[(p - FloatFormat.int - 1) \div FloatFormat.limb + 1]
                          \div 2^(FloatFormat.limb - 1
                                  - ((p - FloatFormat.int - 1) % FloatFormat.limb))) % 2])
    IN  RoundFloat(bits, q.sticky)

\* a + b of two floats: a position receives a carry when a later position
\* generates one and every position between propagates it.
FloatAdd(a, b) ==
    LET carry(p) == \E q \in (p + 1)..FloatFormat.width :
                        /\ a[q] = 1 /\ b[q] = 1
                        /\ \A r \in (p + 1)..(q - 1) : a[r] + b[r] = 1
        sum == FloatBits([p \in 1..FloatFormat.width |->
                   (a[p] + b[p] + IF carry(p) THEN 1 ELSE 0) % 2])
    IN  RoundFloat(sum, FALSE)

\* An int | None field holding an int.
IntValue(k) == [int |-> k]

\* LRShare.fraction_decimal
fraction_decimal(share) ==
    IF /\ share.numerator # None
       /\ share.denominator # None
       /\ share.denominator.int # 0
       /\ share.denominator.int > 0
    THEN FloatDiv(share.numerator.int, share.denominator.int)
    ELSE None

\* The for loop of total_ownership_accounted and its return.
RECURSIVE total_from(_, _, _)
total_from(shares, total, has_fractions) ==
    IF shares = <<>> THEN (IF has_fractions THEN total ELSE None)
    ELSE IF is_active(Head(shares)) /\ fraction_decimal(Head(shares)) # None
    THEN total_from(Tail(shares),
                    FloatAdd(total, fraction_decimal(Head(shares))), TRUE)
    ELSE total_from(Tail(shares), total, has_fractions)

\* OwnershipSheetB.total_ownership_accounted
total_ownership_accounted(sheet) == total_from(sheet.lr_unit_shares, FloatZero, FALSE)

FractionShares ==
    {[status |-> 0, numerator |-> IntValue(1), denominator |-> IntValue(2)],
     [status |-> 0, numerator |-> IntValue(1), denominator |-> IntValue(3)],
     [status |-> 0, numerator |-> IntValue(1), denominator |-> IntValue(6)],
     [status |-> 0, numerator |-> IntValue(1), denominator |-> IntValue(4)],
     [status |-> 0, numerator |-> None, denominator |-> None],
     [status |-> 1, numerator |-> IntValue(1), denominator |-> IntValue(2)]}

FractionSheetInit ==
    /\ entity \in [lr_unit_shares : SeqsUpTo(FractionShares, MaxFractionShares)]
    /\ derived = NotCalled
    /\ IdleBut("entity")

TotalOwnershipAccounted ==
    /\ ~derived.done
    /\ derived' = Returned(total_ownership_accounted(entity))
    /\ UNCHANGED <<entity, cacheVars, ownersVars, gmlVars, clientVars, batchVars,
                   raceVars, opVars>>

SpecFractionSheet == FractionSheetInit /\ [][TotalOwnershipAccounted]_vars

(***************************************************************************)
(* PossessionSheet.total_ownership: the sum of the possessors' truthy      *)
(* ownership decimals.                                                     *)
(***************************************************************************)
\* float(frac) of a non-negative Fraction.
float(frac) == FloatDiv(frac.num, frac.den)

\* [p.ownership_decimal for p in possessors if p.ownership_decimal]
ownerships(possessors) ==
    LET decimal(p) == ownership_decimal(p).value
        truthy == SelectSeq(possessors, LAMBDA p :
                      decimal(p) # None /\ float(decimal(p)) # FloatZero)
    IN  [i \in 1..Len(truthy) |-> float(decimal(truthy[i]))]

\* sum(floats), from the left, starting at 0.
RECURSIVE sum(_)
sum(floats) ==
    IF floats = <<>> THEN FloatZero
    ELSE FloatAdd(sum(SubSeq(floats, 1, Len(floats) - 1)), floats[Len(floats)])

\* PossessionSheet.total_ownership
total_ownership(sheet) ==
    IF ownerships(sheet.possessors) # <<>>
    THEN [float |-> sum(ownerships(sheet.possessors))]
    ELSE None

SheetOwnerships ==
    {None, Text(<<>>), Text(<<"x">>), Text(<<"0", "/", "1">>), Text(<<"1", "/", "2">>),
     Text(<<"1", "/", "5">>), Text(<<"1", "/", "1">>)}

PossessionSheetInit ==
    /\ entity \in [possessors :
                      SeqsUpTo([name : {"Owner A"}, ownership : SheetOwnerships],
                               MaxPossessors)]
    /\ derived = NotCalled
    /\ IdleBut("entity")

TotalOwnership ==
    /\ ~derived.done
    /\ derived' = Returned(total_ownership(entity))
    /\ UNCHANGED <<entity, cacheVars, ownersVars, gmlVars, clientVars, batchVars,
                   raceVars, opVars>>

SpecPossessionSheet == PossessionSheetInit /\ [][TotalOwnership]_vars

(***************************************************************************)
(* LandRegistryUnitDetailed and its derived views.  A unit is its number,  *)
(* book name, type name, `condominiums` flag and the three sheets: A1 with *)
(* cad_parcels (each an `area` text), B with lr_unit_shares, C with        *)
(* lr_entry_groups.  In type names Z, S and C stand for the letters with   *)
(* carons.                                                                 *)
(***************************************************************************)
\* int(text): surrounding whitespace and a sign are accepted.
int(t) ==
    LET u == strip(t)
        signed == u # <<>> /\ u[1] \in {"-", "+"}
        body == IF signed THEN Tail(u) ELSE u
    IN  IF isdigit(body)
        THEN Returned(IF signed /\ u[1] = "-" THEN -IntOf(body) ELSE IntOf(body))
        ELSE Raised("ValueError")

\* LRUnitParcel.area_numeric
area_numeric(parcel) == IF int(parcel.area).ok THEN int(parcel.area).value ELSE 0

\* SheetAParcelList.total_area
RECURSIVE total_area(_)
total_area(cad_parcels) ==
    IF cad_parcels = <<>> THEN 0
    ELSE area_numeric(Head(cad_parcels)) + total_area(Tail(cad_parcels))

\* EncumbranceSheetC.has_encumbrances and LandRegistryUnitDetailed.has_encumbrances
has_encumbrances(sheet_c) == Len(sheet_c.lr_entry_groups) > 0

\* `sub in text` of two strs.
RECURSIVE contains(_, _)
contains(text, sub) ==
    IF Len(text) < Len(sub) THEN FALSE
    ELSE IF SubSeq(text, 1, Len(sub)) = sub THEN TRUE
    ELSE contains(Tail(text), sub)

\* The marker of a condominium in a unit-type name (ETAZNO).
CondominiumMarker == <<"E", "T", "A", "Z", "N", "O">>

\* is_condominium trusting the upstream flag as well.
is_condominium_or_flag(unit) ==
    unit.condominiums \/ contains(unit.lr_unit_type_name, CondominiumMarker)

\* LandRegistryUnitDetailed.is_condominium
is_condominium(unit) == contains(unit.lr_unit_type_name, CondominiumMarker)

\* LandRegistryUnitDetailed.summary
unit_summary(unit) ==
    [unit_number |-> unit.lr_unit_number,
     main_book |-> unit.main_book_name,
     total_parcels |-> Len(unit.possession_sheet_a1.cad_parcels),
     total_area_m2 |-> total_area(unit.possession_sheet_a1.cad_parcels),
     num_owners |-> Len(get_all_owners(unit.ownership_sheet_b.lr_unit_shares)),
     has_encumbrances |-> has_encumbrances(unit.encumbrance_sheet_c)]

UnitTypeNames ==
    {<<"V", "L", "A", "S", "N", "I", "C", "K", "I">>,
     <<"E", "T", "A", "Z", "N", "O", " ", "V", "L">>,
     <<"S", "U", "E", "T", "A", "Z", "N", "O">>,
     <<"e", "t", "a", "z", "n", "o", " ", "v", "l">>,
     <<"E", "T", "A", "Z", "N", "I">>}

UnitParcels == {[area |-> <<"1", "0", "0">>], [area |-> <<" ", "7">>], [area |-> <<"x">>]}

UnitShares ==
    {[status |-> 0, owners |-> <<"Owner A">>, subs |-> <<>>],
     [status |-> 0, owners |-> <<"Owner A", "Owner B">>, subs |-> <<>>],
     [status |-> 1, owners |-> <<"Owner B">>, subs |-> <<>>]}

UnitInit ==
    /\ entity \in [lr_unit_number : {"769"},
                   main_book_name : {"SAVAR"},
                   lr_unit_type_name : UnitTypeNames,
                   condominiums : BOOLEAN,
                   possession_sheet_a1 : [cad_parcels : SeqsUpTo(UnitParcels, MaxParcels)],
                   ownership_sheet_b : [lr_unit_shares : SeqsUpTo(UnitShares, MaxShares)],
                   encumbrance_sheet_c : [lr_entry_groups : {<<>>, <<"mortgage">>}]]
    /\ derived = NotCalled
    /\ IdleBut("entity")

IsCondominium ==
    /\ derived = NotCalled
    /\ derived' = [op |-> "is_condominium", result |-> Returned(is_condominium(entity))]
    /\ UNCHANGED <<entity, cacheVars, ownersVars, gmlVars, clientVars, batchVars,
                   raceVars, opVars>>

Summary ==
    /\ derived = NotCalled
    /\ derived' = [op |-> "summary", result |-> Returned(unit_summary(entity))]
    /\ UNCHANGED <<entity, cacheVars, ownersVars, gmlVars, clientVars, batchVars,
                   raceVars, opVars>>

UnitNext == IsCondominium \/ Summary

SpecUnit == UnitInit /\ [][UnitNext]_vars

(***************************************************************************)
(* ParcelInfo.land_use_summary over the parcel parts, each a name, an area *)
(* text that passed validate_area, and the sheet it belongs to.  A dict is *)
(* a function on its keys.                                                 *)
(***************************************************************************)
\* ParcelPart.validate_area: the text is an int and is not negative.
validate_area(v) == int(v).ok /\ int(v).value >= 0

\* land_use_summary keeping the area of the last part of each name.
RECURSIVE land_use_summary_last_wins(_, _)
land_use_summary_last_wins(parcel_parts, acc) ==
    IF parcel_parts = <<>> THEN acc
    ELSE LET part == Head(parcel_parts)
             area == area_numeric(part)
         IN  land_use_summary_last_wins(Tail(parcel_parts),
                 [name \in DOMAIN acc \cup {part.name} |->
                     IF name = part.name THEN area ELSE acc[name]])

\* The loop of ParcelInfo.land_use_summary, acc being the dict `summary` built so far.
RECURSIVE land_use_summary(_, _)
land_use_summary(parcel_parts, acc) ==
    IF parcel_parts = <<>> THEN acc
    ELSE LET part == Head(parcel_parts)
             area == area_numeric(part)
         IN  land_use_summary(Tail(parcel_parts),
                 [name \in DOMAIN acc \cup {part.name} |->
                     IF name # part.name THEN acc[name]
                     ELSE IF part.name \in DOMAIN acc THEN acc[name] + area
                     ELSE area])

EmptyDict == [name \in {} |-> 0]

ParcelParts ==
    {part \in [name : {"PASNJAK", "SUMA"},
               area : {<<"1", "0">>, <<" ", "7">>, <<"-", "5">>, <<"x">>},
               possession_sheet_id : {1, 2}] : validate_area(part.area)}

ParcelPartsInit ==
    /\ entity \in [parcel_parts : SeqsUpTo(ParcelParts, MaxParts)]
    /\ derived = NotCalled
    /\ IdleBut("entity")

LandUseSummary ==
    /\ ~derived.done
    /\ derived' = Returned(land_use_summary(entity.parcel_parts, EmptyDict))
    /\ UNCHANGED <<entity, cacheVars, ownersVars, gmlVars, clientVars, batchVars,
                   raceVars, opVars>>

SpecLandUse == ParcelPartsInit /\ [][LandUseSummary]_vars

(***************************************************************************)
(* CadastralTools.batch_lr_units (mcp/src/cadastral_mcp/tools.py).  A spec *)
(* is a dict with lr_unit_number and main_book_id, each a str or an int    *)
(* (main_book_id may be None); the client answers the k-th fetch with      *)
(* replies[k], a unit or an exception.                                     *)
(***************************************************************************)
\* str(value) of a str or an int.
str(v) == v.text

\* The first loop of batch_lr_units: the specs kept, in order, by (str(number), main_book_id).
RECURSIVE unique_lr_units(_, _)
unique_lr_units(lr_units, seen) ==
    IF lr_units = <<>> THEN <<>>
    ELSE LET spec == Head(lr_units)
             key == <<str(spec.lr_unit_number), spec.main_book_id>>
         IN  IF str(spec.lr_unit_number) = <<>> \/ spec.main_book_id = None
             THEN unique_lr_units(Tail(lr_units), seen)
             ELSE IF key \in seen THEN unique_lr_units(Tail(lr_units), seen)
             ELSE <<spec>> \o unique_lr_units(Tail(lr_units), seen \cup {key})

\* The specs rejected by the first loop.
missing_fields(lr_units) ==
    SelectSeq(lr_units, LAMBDA spec :
        str(spec.lr_unit_number) = <<>> \/ spec.main_book_id = None)

\* int(spec["main_book_id"])
book_id(spec) ==
    IF spec.main_book_id.type = "int" THEN Returned(IntOf(spec.main_book_id.text))
    ELSE int(spec.main_book_id.text)

\* The second loop: the calls of client.get_lr_unit_detailed made so far and the
\* result entries, the k-th call being answered by replies[k].
RECURSIVE fetch_units(_, _, _, _)
fetch_units(specs, replies, calls, entries) ==
    IF specs = <<>> THEN [calls |-> calls, entries |-> entries]
    ELSE LET spec == Head(specs)
             id == book_id(spec)
             request == [lr_unit_number |-> str(spec.lr_unit_number),
                         main_book_id |-> id.value]
             reply == replies[Len(calls) + 1]
         IN  IF ~id.ok
             THEN fetch_units(Tail(specs), replies, calls,
                              Append(entries, [status |-> "error", spec |-> spec]))
             ELSE fetch_units(Tail(specs), replies, Append(calls, request),
                              Append(entries,
                                     [status |-> IF reply.ok THEN "success" ELSE "error",
                                      spec |-> spec]))

\* CadastralTools.batch_lr_units
batch_lr_units(lr_units, replies) ==
    LET unique == unique_lr_units(lr_units, {})
        fetched == fetch_units(unique, replies, <<>>, <<>>)
        rejected == [i \in 1..Len(missing_fields(lr_units)) |->
                        [status |-> "error", spec |-> missing_fields(lr_units)[i]]]
        results == rejected \o fetched.entries
    IN  [calls |-> fetched.calls,
         results |-> results,
         total |-> Len(lr_units),
         unique |-> Len(unique),
         successful |-> Len(SelectSeq(results, LAMBDA r : r.status = "success")),
         failed |-> Len(SelectSeq(results, LAMBDA r : r.status = "error"))]

LrUnitSpecs ==
    [lr_unit_number : {IntArg(<<"7">>), StrArg(<<"7">>), StrArg(<<>>)},
     main_book_id : {None, IntArg(<<"3">>), StrArg(<<"3">>), IntArg(<<"4">>), StrArg(<<"x">>)}]

FetchReplies == {Returned("unit"), Raised("CadastralAPIError")}

BatchLrUnitsInit ==
    /\ entity \in [lr_units : SeqsUpTo(LrUnitSpecs, MaxSpecs),
                   replies : [1..MaxSpecs -> FetchReplies]]
    /\ derived = NotCalled
    /\ IdleBut("entity")

BatchLrUnits ==
    /\ ~derived.done
    /\ derived' = Returned(batch_lr_units(entity.lr_units, entity.replies))
    /\ UNCHANGED <<entity, cacheVars, ownersVars, gmlVars, clientVars, batchVars,
                   raceVars, opVars>>

SpecBatchLrUnits == BatchLrUnitsInit /\ [][BatchLrUnits]_vars

(***************************************************************************)
(* The JSON output of batch-fetch (BatchSummary.to_dict) read back by      *)
(* batch-lr-unit --from-batch-output (_parse_batch_fetch_output).  A dict  *)
(* is a function on its keys; json.dump followed by json.load gives back   *)
(* the same keys and values, all of them strs, ints, bools, None or dicts. *)
(***************************************************************************)
\* BatchResult.to_dict
result_to_dict(r, include_full_data) ==
    LET head == [status |-> r.status]
        input == IF is_direct_id(r.input)
                 THEN [parcel_id |-> r.input.parcel_id]
                 ELSE [parcel_number |-> r.input.parcel_number,
                       municipality |-> r.input.municipality]
        data == r.parcel_data
        body == IF r.status = "success" /\ data # None
                THEN [parcel_id |-> data.parcel_id,
                      parcel_number |-> data.parcel_number,
                      municipality_code |-> data.municipality_reg_num,
                      total_owners |-> data.total_owners]
                     @@ (IF include_full_data
                         THEN [full_data |-> [address |-> data.address]]
                         ELSE << >>)
                ELSE [error_type |-> r.error_type, error_message |-> r.error_message]
    IN  body @@ input @@ head

\* BatchSummary.to_dict
summary_to_dict(s, include_full_data) ==
    [summary |-> [total |-> s.total, successful |-> s.successful, failed |-> s.failed],
     results |-> [i \in 1..Len(s.results) |-> result_to_dict(s.results[i], include_full_data)]]

\* dict.get(key)
Get(item, key) ==
    IF key \in DOMAIN item THEN [present |-> TRUE, value |-> item[key]]
    ELSE [present |-> FALSE]

\* The loop of _parse_batch_fetch_output over the results, from item i on.
RECURSIVE extract_lr_units(_, _, _)
extract_lr_units(results, i, seen) ==
    IF i > Len(results) THEN <<>>
    ELSE LET item == results[i]
             lr_unit_number == Get(item, "lr_unit_number")
             main_book_id == Get(item, "main_book_id")
             key == <<lr_unit_number, main_book_id>>
         IN  IF Get(item, "status") # [present |-> TRUE, value |-> "success"]
             THEN extract_lr_units(results, i + 1, seen)
             ELSE IF ~lr_unit_number.present \/ lr_unit_number.value = <<>>
                     \/ ~main_book_id.present
             THEN extract_lr_units(results, i + 1, seen)
             ELSE IF key \in seen THEN extract_lr_units(results, i + 1, seen)
             ELSE <<[lr_unit_number |-> lr_unit_number.value,
                     main_book_id |-> main_book_id.value]>>
                      \o extract_lr_units(results, i + 1, seen \cup {key})

\* _parse_batch_fetch_output on the object batch-fetch wrote.
_parse_batch_fetch_output(data) ==
    LET inputs == extract_lr_units(data.results, 1, {})
    IN  IF inputs = <<>> THEN Raised("ValueError") ELSE Returned(inputs)

LrUnitRef(number, book) == [lr_unit_number |-> number, main_book_id |-> book]

FetchedParcel(id, lr_unit) ==
    [status |-> "success",
     input |-> [parcel_number |-> <<"1", "2">>, municipality |-> <<"S", "A">>],
     parcel_data |-> [parcel_id |-> id, parcel_number |-> <<"1", "2">>,
                      municipality_reg_num |-> <<"3", "4">>, total_owners |-> 1,
                      address |-> None, lr_unit |-> lr_unit],
     error_type |-> None, error_message |-> None]

FetchResults ==
    {FetchedParcel("p1", LrUnitRef(<<"7">>, 3)),
     FetchedParcel("p2", LrUnitRef(<<"8">>, 3)),
     FetchedParcel("p3", None),
     [status |-> "error", input |-> [parcel_id |-> "p4"], parcel_data |-> None,
      error_type |-> "parcel_not_found", error_message |-> "Parcel not found"]}

OutputInit ==
    /\ entity \in [results : SeqsUpTo(FetchResults, MaxResults),
                   include_full_data : BOOLEAN]
    /\ derived = NotCalled
    /\ IdleBut("entity")

\* batch-fetch --format json -o parcels.json
WriteBatchOutput ==
    /\ derived = NotCalled
    /\ LET ok == Len(SelectSeq(entity.results, LAMBDA r : r.status = "success"))
       IN  derived' =
               [data |-> summary_to_dict(BatchSummary(Len(entity.results), ok,
                                                      Len(entity.results) - ok,
                                                      entity.results),
                                         entity.include_full_data),
                parsed |-> NotCalled]
    /\ UNCHANGED <<entity, cacheVars, ownersVars, gmlVars, clientVars, batchVars,
                   raceVars, opVars>>

\* batch-lr-unit --from-batch-output parcels.json
ParseBatchOutput ==
    /\ derived # NotCalled
    /\ ~derived.parsed.done
    /\ derived' = [derived EXCEPT !.parsed = _parse_batch_fetch_output(derived.data)]
    /\ UNCHANGED <<entity, cacheVars, ownersVars, gmlVars, clientVars, batchVars,
                   raceVars, opVars>>

OutputNext == WriteBatchOutput \/ ParseBatchOutput

SpecBatchOutput == OutputInit /\ [][OutputNext]_vars

(***************************************************************************)
(* parse_csv_file (cli/src/cadastral_cli/input_parsers.py) on a file with  *)
(* the header parcel_number,municipality.  csv.DictReader gives each row   *)
(* a str for a cell the line has and None for a cell it is too short for.  *)
(***************************************************************************)
\* row.get(column, "").strip(): None has no strip.
stripped(cell) == IF cell = None THEN Raised("AttributeError") ELSE Returned(strip(cell.text))

\* The for loop of parse_csv_file over the rows, in the parcel_number format.
RECURSIVE parse_rows(_, _, _)
parse_rows(rows, last_municipality, inputs) ==
    IF rows = <<>>
    THEN (IF inputs = <<>> THEN Raised("ValueError") ELSE Returned(inputs))
    ELSE LET row == Head(rows)
             parcel_number == stripped(row.parcel_number)
             municipality == stripped(row.municipality)
         IN  IF ~parcel_number.ok THEN parcel_number
             ELSE IF ~municipality.ok THEN municipality
             ELSE IF parcel_number.value = <<>> THEN Raised("ValueError")
             ELSE IF municipality.value # <<>>
             THEN parse_rows(Tail(rows), Text(municipality.value),
                             Append(inputs, [parcel_number |-> parcel_number.value,
                                              municipality |-> municipality.value]))
             ELSE IF last_municipality # None
             THEN parse_rows(Tail(rows), last_municipality,
                             Append(inputs, [parcel_number |-> parcel_number.value,
                                              municipality |-> last_municipality.text]))
             ELSE Raised("ValueError")

\* parse_csv_file
parse_csv_file(rows) == parse_rows(rows, None, <<>>)

CsvRows ==
    [parcel_number : {Text(<<"1">>), Text(<<"2">>), Text(<<>>)},
     municipality : {None, Text(<<>>), Text(<<" ">>), Text(<<"S", "A">>), Text(<<"3", "4">>)}]

CsvInit ==
    /\ entity \in [rows : SeqsUpTo(CsvRows, MaxRows)]
    /\ derived = NotCalled
    /\ IdleBut("entity")

ParseCsvFile ==
    /\ ~derived.done
    /\ derived' = parse_csv_file(entity.rows)
    /\ UNCHANGED <<entity, cacheVars, ownersVars, gmlVars, clientVars, batchVars,
                   raceVars, opVars>>

SpecCsv == CsvInit /\ [][ParseCsvFile]_vars

(***************************************************************************)
(* The fetch operations of the client over _make_request: what each makes  *)
(* of the HTTP replies it gets, one reply per attempt.                     *)
(***************************************************************************)
MAX_RETRIES == 3

\* What self.client.get gives: a timeout, a connection error, or a response with
\* a status code and a body that is JSON data or no JSON.
Timeout == [kind |-> "timeout"]
ConnectError == [kind |-> "connect_error"]
Http(status, body) == [kind |-> "http", status |-> status, body |-> body]
NotJson == [json |-> FALSE]
JsonBody(data) == [json |-> TRUE, data |-> data]

\* CadastralAPIClient._make_request(endpoint, params, retry_count); replies[k] is
\* the reply to the k-th attempt.
RECURSIVE _make_request(_, _, _)
_make_request(endpoint, replies, retry_count) ==
    LET response == replies[retry_count + 1]
    IN  IF response.kind = "timeout"
        THEN Raised(CadastralAPIError("timeout", [endpoint |-> endpoint]))
        ELSE IF response.kind = "connect_error"
        THEN Raised(CadastralAPIError("connection", [endpoint |-> endpoint]))
        ELSE IF response.status = 429
        THEN IF retry_count < MAX_RETRIES
             THEN _make_request(endpoint, replies, retry_count + 1)
             ELSE Raised(CadastralAPIError("rate_limit",
                             [retry_count |-> retry_count, max_retries |-> MAX_RETRIES]))
        ELSE IF 500 <= response.status /\ response.status < 600
        THEN IF retry_count < MAX_RETRIES
             THEN _make_request(endpoint, replies, retry_count + 1)
             ELSE Raised(CadastralAPIError("server_error",
                             [status_code |-> response.status,
                              retry_count |-> retry_count]))
        ELSE IF response.status >= 400
        THEN \* raise_for_status: HTTPStatusError, caught as httpx.HTTPError
             Raised(CadastralAPIError("connection", [endpoint |-> endpoint]))
        ELSE IF ~response.body.json
        THEN \* response.json(): ValueError
             Raised(CadastralAPIError("invalid_response", [endpoint |-> endpoint]))
        ELSE Returned(response.body.data)

\* CadastralAPIClient.list_cadastral_offices
list_cadastral_offices(resp) ==
    LET endpoint == "/search-cad-parcels/offices"
        reqs == <<[endpoint |-> endpoint]>>
    IN  IF ~resp.ok THEN Step(resp, reqs)
        ELSE IF resp.value = EmptyData
        THEN Step(Raised(CadastralAPIError("invalid_response",
                             [endpoint |-> endpoint, reason |-> "empty_response"])), reqs)
        ELSE Step(ValidateList(endpoint, resp.value), reqs)

FetchOperations ==
    {"list_cadastral_offices", "search_municipality", "search_parcel",
     "get_parcel_info", "get_lr_unit_detailed"}

EndpointOf(op) ==
    CASE op = "list_cadastral_offices" -> "/search-cad-parcels/offices"
      [] op = "search_municipality" -> "/search-cad-parcels/municipalities"
      [] op = "search_parcel" -> "/search-cad-parcels/parcel-numbers"
      [] op = "get_parcel_info" -> "/cad/parcel-info"
      [] op = "get_lr_unit_detailed" -> "/lr/lr-unit"

\* One fetch operation made with fixed arguments on the given HTTP replies.
Fetch(op, replies) ==
    LET resp == _make_request(EndpointOf(op), replies, 0)
    IN  CASE op = "list_cadastral_offices" -> list_cadastral_offices(resp)
          [] op = "search_municipality" -> search_municipality(<<"S", "A">>, resp)
          [] op = "search_parcel" -> search_parcel(<<"1", "2">>, <<"3", "4">>, resp)
          [] op = "get_parcel_info" -> get_parcel_info("p1", resp)
          [] op = "get_lr_unit_detailed" -> get_lr_unit_detailed("769", 21277, FALSE, resp)

\* The JSON data an endpoint may answer with.
Offices == {[valid |-> TRUE, id |-> "114", name |-> "PUK ZADAR"]}

JsonDatas(op) ==
    CASE op = "list_cadastral_offices" ->
             {EmptyData, <<InvalidItem>>} \cup {<<o>> : o \in Offices}
      [] op = "search_municipality" ->
             {EmptyData, <<InvalidItem>>} \cup {<<i>> : i \in MunicipalityItems}
      [] op = "search_parcel" ->
             {EmptyData, <<InvalidItem>>} \cup {<<i>> : i \in LrParcelItems}
      [] op = "get_parcel_info" ->
             {EmptyData, InvalidItem} \cup ParcelInfos
      [] op = "get_lr_unit_detailed" ->
             {EmptyData, JsonList(<<>>), [valid |-> FALSE, is_list |-> FALSE]}
                 \cup LrUnits \cup {JsonList(<<u>>) : u \in LrUnits}

\* The body the mock server sends with status 404.
ErrorBody == JsonBody([valid |-> FALSE, error |-> "not found"])

HttpReplies(op) ==
    {Timeout, ConnectError, Http(429, NotJson), Http(500, NotJson),
     Http(404, ErrorBody), Http(200, NotJson)}
        \cup {Http(200, JsonBody(d)) : d \in JsonDatas(op)}

FetchInit ==
    /\ \E op \in FetchOperations :
           /\ call = [op |-> op]
           /\ remote \in [replies : [1..(MAX_RETRIES + 1) -> HttpReplies(op)]]
    /\ outcome = NotCalled
    /\ IdleBut("client")

FetchCall ==
    /\ ~outcome.done
    /\ LET r == Fetch(call.op, remote.replies)
       IN  outcome' = [done |-> TRUE, res |-> r.res, reqs |-> r.reqs]
    /\ UNCHANGED <<call, remote, cacheVars, ownersVars, gmlVars, batchVars, raceVars,
                   entityVars, opVars>>

FetchNext == FetchCall

SpecFetch == FetchInit /\ [][FetchNext]_vars

(***************************************************************************)
(* One logical request, attempt by attempt: each step is one pass through  *)
(* the body of _make_request, which sends one HTTP request and then        *)
(* returns, raises, or calls itself with retry_count + 1.                  *)
(***************************************************************************)
Again == [again |-> TRUE, res |-> NotCalled]
Final(res) == [again |-> FALSE, res |-> res]

\* The pass that retries once more than MAX_RETRIES allows.
make_request_attempt_one_more(endpoint, response, retry_count) ==
    IF response.kind = "timeout"
    THEN Final(Raised(CadastralAPIError("timeout", [endpoint |-> endpoint])))
    ELSE IF response.kind = "connect_error"
    THEN Final(Raised(CadastralAPIError("connection", [endpoint |-> endpoint])))
    ELSE IF response.status = 429
    THEN IF retry_count <= MAX_RETRIES
         THEN Again
         ELSE Final(Raised(CadastralAPIError("rate_limit",
                        [retry_count |-> retry_count, max_retries |-> MAX_RETRIES])))
    ELSE IF 500 <= response.status /\ response.status < 600
    THEN IF retry_count <= MAX_RETRIES
         THEN Again
         ELSE Final(Raised(CadastralAPIError("server_error",
                        [status_code |-> response.status,
                         retry_count |-> retry_count])))
    ELSE IF response.status >= 400
    THEN Final(Raised(CadastralAPIError("connection", [endpoint |-> endpoint])))
    ELSE IF ~response.body.json
    THEN Final(Raised(CadastralAPIError("invalid_response", [endpoint |-> endpoint])))
    ELSE Final(Returned(response.body.data))

\* The body of CadastralAPIClient._make_request for the response client.get
\* gave to this attempt; Again is the recursive call.
make_request_attempt(endpoint, response, retry_count) ==
    IF response.kind = "timeout"
    THEN Final(Raised(CadastralAPIError("timeout", [endpoint |-> endpoint])))
    ELSE IF response.kind = "connect_error"
    THEN Final(Raised(CadastralAPIError("connection", [endpoint |-> endpoint])))
    ELSE IF response.status = 429
    THEN IF retry_count < MAX_RETRIES
         THEN Again
         ELSE Final(Raised(CadastralAPIError("rate_limit",
                        [retry_count |-> retry_count, max_retries |-> MAX_RETRIES])))
    ELSE IF 500 <= response.status /\ response.status < 600
    THEN IF retry_count < MAX_RETRIES
         THEN Again
         ELSE Final(Raised(CadastralAPIError("server_error",
                        [status_code |-> response.status,
                         retry_count |-> retry_count])))
    ELSE IF response.status >= 400
    THEN Final(Raised(CadastralAPIError("connection", [endpoint |-> endpoint])))
    ELSE IF ~response.body.json
    THEN Final(Raised(CadastralAPIError("invalid_response", [endpoint |-> endpoint])))
    ELSE Final(Returned(response.body.data))

\* What the server may answer to one attempt.
RetryReplies ==
    {Timeout, ConnectError, Http(429, NotJson), Http(500, NotJson), Http(503, NotJson),
     Http(404, ErrorBody), Http(200, NotJson), Http(200, JsonBody(EmptyData))}

RetryInit ==
    /\ call = [op |-> "_make_request", endpoint |-> "/cad/parcel-info"]
    /\ remote = [sent |-> <<>>, retry_count |-> 0]
    /\ outcome = NotCalled
    /\ IdleBut("client")

\* client.get is called once more and answered with response.
Attempt(response) ==
    /\ outcome = NotCalled
    /\ LET r == make_request_attempt(call.endpoint, response, remote.retry_count)
       IN  /\ remote' = [sent |-> Append(remote.sent, response),
                         retry_count |-> IF r.again THEN remote.retry_count + 1
                                         ELSE remote.retry_count]
           /\ outcome' = r.res
    /\ UNCHANGED <<call, cacheVars, ownersVars, gmlVars, batchVars, raceVars,
                   entityVars, opVars>>

RetryNext == \E response \in RetryReplies : Attempt(response)

\* The server answers every attempt, and time.sleep returns.
SpecRetry == RetryInit /\ [][RetryNext]_vars /\ WF_vars(RetryNext)

\* The attempts of a finished request, as the recursive _make_request reads them.
SentReplies == [k \in 1..(MAX_RETRIES + 1) |->
                    IF k <= Len(remote.sent) THEN remote.sent[k] ELSE Timeout]

RetryAgreesWithMakeRequest ==
    outcome # NotCalled =>
        /\ Len(remote.sent) <= MAX_RETRIES + 1
        /\ outcome = _make_request(call.endpoint, SentReplies, 0)

(***************************************************************************)
(* C1.  As claimed: any sequence of ensure_available(code) calls from an   *)
(* empty cache performs exactly one archive download and exactly one       *)
(* extraction in total, and every call returns the same path.              *)
(***************************************************************************)
C1_ExactlyOneDownloadAndExtraction ==
    \A m \in Munis :
        stats[m].calls > 0 =>
            /\ stats[m].downloads = 1
            /\ stats[m].zipReads = 1
            /\ returned[m] = {get_gml_path(m, ParcelsGml)}

C1_AtMostOnce ==
    \A m \in Munis :
        /\ stats[m].zipWrites <= 1
        /\ stats[m].gmlWrites <= 1
        /\ returned[m] # {} =>
               /\ stats[m].zipWrites = 1
               /\ stats[m].gmlWrites = 1
               /\ returned[m] = {get_gml_path(m, ParcelsGml)}

C1_NoWorkAfterReturn ==
    \A m \in Munis :
        returned[m] # {} =>
            /\ stats'[m].downloads = stats[m].downloads
            /\ stats'[m].zipReads = stats[m].zipReads

\* C1 (amended): a sequence of ensure_available(code) calls stores the archive at
\* most once and extracts the parcels file at most once; once a call has returned,
\* exactly one archive was stored and one extraction made, no later call downloads
\* or reads the archive again, and every returning call gives the same path.
C1_OnceAfterFirstSuccess == []C1_AtMostOnce /\ [][C1_NoWorkAfterReturn]_vars

\* C1 witness: a municipality asked for several times, a failed download among
\* the calls, and a call that returned.
C1_Witness ==
    \E m \in Munis :
        /\ stats[m].calls >= 3
        /\ stats[m].downloads = 2
        /\ returned[m] # {}

(***************************************************************************)
(* C2.  The recursive flatten of Sheet B the claim describes: the direct   *)
(* owners of an active share, or, when it has none, the owners of its      *)
(* active sub-shares, recursively; nothing of a share that is not active.  *)
(***************************************************************************)
RECURSIVE FlattenShare(_)
FlattenShare(share) ==
    IF ~is_active(share) THEN <<>>
    ELSE IF share.owners # <<>> THEN share.owners
    ELSE ExtendAll(<<>>, [i \in 1..Len(share.subs) |-> FlattenShare(share.subs[i])])

FlattenSheet(shares) ==
    ExtendAll(<<>>, [i \in 1..Len(shares) |-> FlattenShare(shares[i])])

\* C2: current_owners(unit) returns exactly the owners the recursive flatten of
\* Sheet B reaches.
C2_OwnersAreRecursiveFlatten ==
    owners.done => owners.value = FlattenSheet(sheetB)

(***************************************************************************)
(* C3.  get_parcel_by_number returns a geometry only for the first record, *)
(* in document order, whose parcel-number text equals the number asked for *)
(* exactly, and None, without raising, when no record's number equals it.  *)
(***************************************************************************)
MatchingRecords ==
    {i \in 1..Len(doc) :
        doc[i].cestice /\ doc[i].broj.elem /\ doc[i].broj.text # <<>>
                       /\ doc[i].broj.text = query}

FirstMatchingRecord == CHOOSE i \in MatchingRecords : \A j \in MatchingRecords : i <= j

C3_ExactFirstMatchOrNone ==
    found.done =>
        /\ found.ok
        /\ MatchingRecords = {} => found.value = None
        /\ found.value # None =>
               /\ MatchingRecords # {}
               /\ found.value.cestica_id = <<ToString(FirstMatchingRecord)>>
               /\ found.value.broj_cestice = strip(query)

\* C3 witness: the record asked for comes after a record whose number is a proper
\* prefix of the number asked for, and it is the one returned.
C3_Witness ==
    /\ found.done
    /\ Len(doc) = 2
    /\ doc[1] = Numbered(<<WellFormed(<<"1">>)>>)[1]
    /\ query = <<"1", "2">>
    /\ found.value # None
    /\ found.value.cestica_id = <<"2">>

(***************************************************************************)
(* C4.  As claimed: get_all_parcels returns, in document order, exactly    *)
(* one geometry for each record that has all four scalar fields and a      *)
(* polygon block, and omits the others without raising.  A scalar field    *)
(* counts as present when it has non-blank text, a polygon block when the  *)
(* GEOM element holds a Polygon with its coordinates element.              *)
(***************************************************************************)
HasScalar(child) == child.elem /\ strip(child.text) # <<>>

HasFourScalarsAndPolygon(r) ==
    /\ r.cestice
    /\ HasScalar(r.id) /\ HasScalar(r.broj) /\ HasScalar(r.area) /\ HasScalar(r.ko)
    /\ r.geom.geom /\ r.geom.polygon /\ r.geom.coords

\* The result is one geometry per record of sel, in order.
OneGeometryEach(result, sel) ==
    /\ result.ok
    /\ Len(result.value) = Len(sel)
    /\ \A i \in 1..Len(sel) :
           /\ result.value[i].cestica_id = strip(sel[i].id.text)
           /\ result.value[i].broj_cestice = strip(sel[i].broj.text)

Parsable(r) ==
    /\ HasFourScalarsAndPolygon(r)
    /\ IsFloat(strip(r.area.text))

IsInfoRequest(r) == r.endpoint = "/cad/parcel-info"

\* The search answered with results, all of them well-formed.
SearchSucceeded ==
    /\ remote.search.ok
    /\ remote.search.value # <<>>
    /\ \A i \in 1..Len(remote.search.value) : remote.search.value[i].valid

ExactResults ==
    {i \in 1..Len(remote.search.value) :
        remote.search.value[i].parcel_number = call.parcel_number}

C7_DetailOnlyForExactMatch ==
    (outcome.done /\ SearchSucceeded) =>
        LET fetched == SelectSeq(outcome.reqs, IsInfoRequest)
            results == remote.search.value
        IN  /\ Len(fetched) <= 1
            /\ (call.exact_match /\ ExactResults = {}) =>
                   /\ fetched = <<>>
                   /\ outcome.res = Returned(None)
            /\ (call.exact_match /\ ExactResults # {}) =>
                   /\ Len(fetched) = 1
                   /\ \E i \in ExactResults :
                          /\ \A j \in ExactResults : i <= j
                          /\ fetched[1].parcelId = results[i].parcel_id
            /\ ~call.exact_match =>
                   /\ Len(fetched) = 1
                   /\ fetched[1].parcelId = results[1].parcel_id

\* C7 witness: an exact-match call whose search returned a partial match first and
\* the exact match second; the detail of the second was fetched and returned.
C7_Witness ==
    /\ outcome.done
    /\ call.exact_match
    /\ call.parcel_number = <<"1", "2">>
    /\ SearchSucceeded
    /\ Len(remote.search.value) = 2
    /\ remote.search.value[1] = [valid |-> TRUE, parcel_id |-> "p1",
                                 parcel_number |-> <<"1", "2", "/", "3">>]
    /\ remote.search.value[2].parcel_id = "p2"
    /\ outcome.res.ok
    /\ outcome.res.value # None
    /\ SelectSeq(outcome.reqs, IsInfoRequest)[1].parcelId = "p2"

(***************************************************************************)
(* C8.  get_lr_unit_from_parcel sends its requests in the order            *)
(* municipality search (for a name only), parcel search, parcel detail,    *)
(* unit detail, and sends the unit-detail request only after every earlier *)
(* step succeeded; a parcel that is not found raises parcel_not_found and  *)
(* a found parcel without a unit reference raises lr_unit_not_found with   *)
(* reason parcel_has_no_lr_unit.                                           *)
(***************************************************************************)
Endpoints(reqs) == [i \in 1..Len(reqs) |-> reqs[i].endpoint]

IsPrefix(a, b) == Len(a) <= Len(b) /\ \A i \in 1..Len(a) : a[i] = b[i]

AllValid(items) == \A i \in 1..Len(items) : items[i].valid

\* The municipality step gave a registration code.
MunicipalityResolved ==
    /\ call.municipality.type = "str"
    /\ \/ isdigit(call.municipality.text)
       \/ /\ remote.municipalities.ok
          /\ remote.municipalities.value # <<>>
          /\ AllValid(remote.municipalities.value)

\* The parcel search answered, and the parcel asked for is (not) among its results.
ParcelSearchAnswered ==
    remote.search.ok /\ AllValid(remote.search.value)

ParcelAbsent ==
    /\ ParcelSearchAnswered
    /\ \A i \in 1..Len(remote.search.value) :
           remote.search.value[i].parcel_number # call.parcel_number

ParcelFound ==
    /\ ParcelSearchAnswered
    /\ \E i \in 1..Len(remote.search.value) :
           remote.search.value[i].parcel_number = call.parcel_number
    /\ remote.info.ok
    /\ remote.info.value \in ParcelInfos

RaisedWith(res, error_type) ==
    /\ ~res.ok
    /\ res.error.exception = "CadastralAPIError"
    /\ res.error.error_type = error_type

C8_StepsInOrderAndDistinctReasons ==
    outcome.done =>
        LET sent == Endpoints(outcome.reqs)
            lookup == <<"/search-cad-parcels/parcel-numbers", "/cad/parcel-info",
                        "/lr/lr-unit">>
            unitRequested == \E i \in 1..Len(sent) : sent[i] = "/lr/lr-unit"
        IN  /\ IF call.municipality.type = "str" /\ ~isdigit(call.municipality.text)
               THEN IsPrefix(sent, <<"/search-cad-parcels/municipalities">> \o lookup)
               ELSE IsPrefix(sent, lookup)
            /\ unitRequested =>
                   /\ MunicipalityResolved
                   /\ ParcelFound
                   /\ remote.info.value.lr_unit # None
                   /\ outcome.reqs[Len(sent)].lrUnitNumber =
                          remote.info.value.lr_unit.lr_unit_number
                   /\ outcome.reqs[Len(sent)].mainBookId =
                          remote.info.value.lr_unit.main_book_id
            /\ (MunicipalityResolved /\ ParcelAbsent) =>
                   RaisedWith(outcome.res, "parcel_not_found")
            /\ (MunicipalityResolved /\ ParcelFound /\ remote.info.value.lr_unit = None) =>
                   /\ RaisedWith(outcome.res, "lr_unit_not_found")
                   /\ outcome.res.error.details.reason = "parcel_has_no_lr_unit"
                   /\ ~unitRequested

\* C8 witness: the municipality name resolved and the parcel was found, but it
\* references no unit: lr_unit_not_found was raised after three requests.
C8_Witness ==
    /\ outcome.done
    /\ call.municipality = StrArg(<<"S", "A">>)
    /\ MunicipalityResolved
    /\ ParcelFound
    /\ remote.info.value.lr_unit = None
    /\ Len(outcome.reqs) = 3
    /\ RaisedWith(outcome.res, "lr_unit_not_found")

(***************************************************************************)
(* C9.  The strict _resolve_municipality returns an all-digit input        *)
(* unchanged without searching; for any other input it returns a code     *)
(* exactly when the search gave one match, that match's code, and ends in  *)
(* SystemExit when the search gave no match or more than one.              *)
(***************************************************************************)
C9_StrictResolution ==
    outcome.done =>
        IF isdigit(call.municipality)
        THEN outcome.res = Returned(call.municipality) /\ outcome.reqs = <<>>
        ELSE /\ Len(outcome.reqs) = 1
             /\ outcome.res.ok =>
                    /\ remote.municipalities.ok
                    /\ Len(remote.municipalities.value) = 1
                    /\ outcome.res.value =
                           remote.municipalities.value[1].municipality_reg_num
             /\ remote.municipalities.ok =>
                    IF Len(remote.municipalities.value) = 1
                    THEN outcome.res.ok
                    ELSE outcome.res = Raised(SystemExit(1))

\* C9 witness: a name was searched, two municipalities matched, and the call
\* ended in SystemExit.
C9_Witness ==
    /\ outcome.done
    /\ call.municipality = <<"S", "A">>
    /\ remote.municipalities.ok
    /\ Len(remote.municipalities.value) = 2
    /\ outcome.res = Raised(SystemExit(1))

(***************************************************************************)
(* C10.  As claimed: the batch _resolve_municipality returns every         *)
(* all-digit input unchanged without searching, raises                     *)
(* municipality_not_found on zero matches, and otherwise returns the code  *)
(* of the first search result.                                             *)
(***************************************************************************)
MunicipalitiesFound ==
    /\ remote.municipalities.ok
    /\ remote.municipalities.value # <<>>
    /\ AllValid(remote.municipalities.value)

C10_NumericUnchangedElseFirstResult ==
    outcome.done =>
        IF isdigit(call.municipality)
        THEN outcome.res = Returned(call.municipality) /\ outcome.reqs = <<>>
        ELSE /\ (remote.municipalities.ok /\ remote.municipalities.value = <<>>) =>
                    RaisedWith(outcome.res, "municipality_not_found")
             /\ MunicipalitiesFound =>
                    outcome.res =
                        Returned(remote.municipalities.value[1].municipality_reg_num)

(***************************************************************************)
(* C10, amended.  An input of exactly six digits is returned unchanged     *)
(* without searching; any other input is searched; zero matches raise      *)
(* municipality_not_found; one or more matches return the code of the      *)
(* first result whose name equals the input letter case aside, or of the   *)
(* first result when no name does.  Several matches never make it fail.    *)
(***************************************************************************)
SameName(item) ==
    upper(municipality_name(item.code_and_name)) = upper(call.municipality)

C10_SixDigitsUnchangedElseNamedOrFirst ==
    outcome.done =>
        IF isdigit(call.municipality) /\ Len(call.municipality) = 6
        THEN outcome.res = Returned(call.municipality) /\ outcome.reqs = <<>>
        ELSE LET results == remote.municipalities.value
             IN  /\ Len(outcome.reqs) = 1
                 /\ outcome.reqs[1].search = call.municipality
                 /\ (remote.municipalities.ok /\ results = <<>>) =>
                        RaisedWith(outcome.res, "municipality_not_found")
                 /\ MunicipalitiesFound =>
                        /\ outcome.res.ok
                        /\ IF \E i \in 1..Len(results) : SameName(results[i])
                           THEN \E i \in 1..Len(results) :
                                    /\ SameName(results[i])
                                    /\ \A j \in 1..(i - 1) : ~SameName(results[j])
                                    /\ outcome.res.value = results[i].municipality_reg_num
                           ELSE outcome.res.value = results[1].municipality_reg_num

\* C10 witness: "sa" was searched, the second of two results is named SA, and its
\* code was returned rather than the first result's.
C10_Witness ==
    /\ outcome.done
    /\ call.municipality = <<"s", "a">>
    /\ MunicipalitiesFound
    /\ Len(remote.municipalities.value) = 2
    /\ ~SameName(remote.municipalities.value[1])
    /\ SameName(remote.municipalities.value[2])
    /\ outcome.res = Returned(remote.municipalities.value[2].municipality_reg_num)
    /\ outcome.res.value # remote.municipalities.value[1].municipality_reg_num

(***************************************************************************)
(* C5.  With continue_on_error = true process_batch looks every input item *)
(* up exactly once, in input order, whatever failures earlier items had,   *)
(* never raises, and returns a summary with total = number of inputs, one  *)
(* result per input in input order, and successful + failed = total.       *)
(***************************************************************************)
Successes(results) == {k \in 1..Len(results) : results[k].status = "success"}

C5_ContinueProcessesEveryItem ==
    batch.continue_on_error =>
        /\ Len(lookups) = loop.i - 1
        /\ \A k \in 1..Len(lookups) : lookups[k].item = k
        /\ loop.i <= Len(batch.parcels) + 1
        /\ summary.done =>
               /\ summary.ok
               /\ Len(lookups) = Len(batch.parcels)
               /\ summary.value.total = Len(batch.parcels)
               /\ Len(summary.value.results) = summary.value.total
               /\ \A k \in 1..Len(batch.parcels) :
                      summary.value.results[k].input = batch.parcels[k]
               /\ summary.value.successful =
                      Cardinality(Successes(summary.value.results))
               /\ summary.value.successful + summary.value.failed = summary.value.total

\* C5 witness: the first of two items failed with an unexpected error, the second
\* was still looked up and succeeded, and the summary counts one of each.
C5_Witness ==
    /\ batch.continue_on_error
    /\ Len(batch.parcels) = 2
    /\ summary.done
    /\ summary.ok
    /\ summary.value.results[1].status = "error"
    /\ summary.value.results[1].rest.error_type = "unexpected_error"
    /\ summary.value.results[2].status = "success"
    /\ summary.value.successful = 1
    /\ summary.value.failed = 1

(***************************************************************************)
(* C6.  With continue_on_error = false process_batch stops at the first    *)
(* item that fails: no later item is looked up, and the error of that      *)
(* item's lookup reaches the caller unchanged.                             *)
(***************************************************************************)
C6_StopsAtFirstFailedItem ==
    ~batch.continue_on_error =>
        \A k \in 1..Len(loop.results) :
            loop.results[k].status = "error" =>
                /\ Len(lookups) = k
                /\ summary.done
                /\ ~summary.ok
                /\ ~lookups[k].res.ok
                /\ summary.error = lookups[k].res.error

(***************************************************************************)
(* C11.  As claimed: when two processes call ensure_available for the same *)
(* municipality not yet cached, and the data source serves a good archive, *)
(* then under every interleaving both calls return the same path without   *)
(* error, and neither opens an archive nor returns an extracted file that  *)
(* the other has only partially written.                                   *)
(***************************************************************************)
GoodDownloads ==
    \A p \in Procs :
        /\ procs[p].content \in {NoFile, "archive_with_gml"}
        /\ procs[p].result # Raised("HTTPError")

C11_RaceIsBenign ==
    ((\A p \in Procs : procs[p].pc = "done") /\ GoodDownloads) =>
        /\ \A p \in Procs :
               /\ procs[p].result.ok
               /\ procs[p].result.value.file = "complete"
        /\ \A p, q \in Procs : procs[p].result.value.path = procs[q].result.value.path

(***************************************************************************)
(* C12.  Possessor.ownership_decimal agrees with the reference parse: for  *)
(* "n/d" with n >= 0 and d > 0 it is n/d (zero for "0/..", not None); for  *)
(* an absent, empty or non-numeric string and for d = 0 it is None; it     *)
(* never raises.                                                           *)
(***************************************************************************)
\* The two texts around the only "/" of t, when t has exactly one.
Numerator(t) == SubSeq(t, 1, (CHOOSE i \in 1..Len(t) : t[i] = "/") - 1)
Denominator(t) == SubSeq(t, (CHOOSE i \in 1..Len(t) : t[i] = "/") + 1, Len(t))

AllDigits(t) == t # <<>> /\ \A i \in 1..Len(t) : t[i] \in DigitChars

IsNOverD(t) ==
    /\ Cardinality({i \in 1..Len(t) : t[i] = "/"}) = 1
    /\ AllDigits(Numerator(t))
    /\ AllDigits(Denominator(t))

NonNumeric(t) == \E i \in 1..Len(t) : t[i] \notin DigitChars \cup {"/", " ", "-", "+"}

MissingReplies ==
    {Http(404, ErrorBody), Http(200, JsonBody(EmptyData)),
     Http(200, JsonBody(JsonList(<<>>)))}

C13_MissingIsNotFound ==
    (/\ outcome.done
     /\ call.op \in {"get_parcel_info", "get_lr_unit_detailed"}
     /\ \A k \in 1..(MAX_RETRIES + 1) : remote.replies[k] \in MissingReplies) =>
        \/ outcome.res = Returned(None)
        \/ RaisedWith(outcome.res, "parcel_not_found")
        \/ RaisedWith(outcome.res, "lr_unit_not_found")

(***************************************************************************)
(* C14.  As claimed: every fetch operation returns only validated          *)
(* entities, and when the payload of the reply cannot be turned into them  *)
(* (it is no JSON, or an item fails validation) it raises invalid_response *)
(* with details carrying the endpoint and a reason tag.                    *)
(***************************************************************************)
ListOperations == {"list_cadastral_offices", "search_municipality", "search_parcel"}

Unusable(op, body) ==
    \/ ~body.json
    \/ /\ body.data # EmptyData
       /\ IF op \in ListOperations THEN ~AllValid(body.data)
          ELSE IF "items" \in DOMAIN body.data
          THEN body.data.items # <<>> /\ ~body.data.items[1].valid
          ELSE ~body.data.valid

C14_ValidatedOrInvalidResponseWithReason ==
    outcome.done =>
        LET first == remote.replies[1]
        IN  /\ outcome.res.ok =>
                   IF call.op \in ListOperations THEN AllValid(outcome.res.value)
                   ELSE outcome.res.value.valid
            /\ (first.kind = "http" /\ first.status = 200
                    /\ Unusable(call.op, first.body)) =>
                   /\ RaisedWith(outcome.res, "invalid_response")
                   /\ {"endpoint", "reason"} \subseteq DOMAIN outcome.res.error.details
                   /\ outcome.res.error.details.endpoint = EndpointOf(call.op)

(***************************************************************************)
(* C15.  ensure_available(code, auto_download=false) on a municipality     *)
(* whose archive is not cached raises FileNotFoundError, makes no          *)
(* download, and leaves the municipality not cached.                       *)
(***************************************************************************)
C15_NoDownloadWhenNotCached ==
    (last.op = "ensure_available_no_download"
        /\ last.before[last.code].zip = NoFile) =>
            /\ last.raised = "FileNotFoundError"
            /\ last.downloads = 0
            /\ fs[last.code].zip = NoFile
            /\ fs[last.code].gml = last.before[last.code].gml
            /\ ~is_cached(fs, last.code)

\* C15 witness: the call was made on a municipality without archive while the
\* other municipality was cached.
C15_Witness ==
    /\ last.op = "ensure_available_no_download"
    /\ last.before[last.code].zip = NoFile
    /\ last.raised = "FileNotFoundError"
    /\ \E m \in Munis : m # last.code /\ fs[m].zip # NoFile

(***************************************************************************)
(* C16.  clear_municipality(code) leaves neither the archive nor an        *)
(* extracted file of that municipality (is_cached(code) is false, and an   *)
(* ensure_available that follows downloads again), and leaves the archive  *)
(* and extracted files of every other municipality as they were.           *)
(***************************************************************************)
C16_Cleared ==
    last.op = "clear_municipality" =>
        /\ fs[last.code].zip = NoFile
        /\ fs[last.code].gml = NoFile
        /\ ~is_cached(fs, last.code)
        /\ \A m \in Munis \ {last.code} : fs[m] = last.before[m]

C16_DownloadsAgain ==
    (last.op = "clear_municipality" /\ last'.op = "ensure_available"
        /\ last'.code = last.code) =>
            /\ last'.downloads = 1
            /\ last'.raised = "none" => fs'[last.code].gml # NoFile

C16_InvalidateRemovesExactlyOne == []C16_Cleared /\ [][C16_DownloadsAgain]_vars

\* C16 witness: a municipality with archive and extracted file was cleared while
\* the other municipality kept its archive and extracted file.
C16_Witness ==
    /\ last.op = "clear_municipality"
    /\ last.before[last.code].zip # NoFile
    /\ last.before[last.code].gml # NoFile
    /\ \E m \in Munis : m # last.code /\ fs[m].zip # NoFile /\ fs[m].gml # NoFile

(***************************************************************************)
(* C17.  As claimed: in every reachable state of the cache each            *)
(* municipality subdirectory that exists contains that municipality's      *)
(* archive, and is_cached adds no subdirectory and no file.                *)
(***************************************************************************)
C17_DirectoriesHoldArchives ==
    /\ \A m \in Munis : fs[m].dir => fs[m].zip # NoFile
    /\ last.op = "is_cached" => fs = last.before


(***************************************************************************)
(* C20: the total ownership reported for a sheet's active shares is exact: *)
(* whenever the fractions of the active shares sum to a whole as rationals *)
(* the reported total is exactly 1.                                        *)
(***************************************************************************)
Counted(shares) ==
    SelectSeq(shares, LAMBDA share :
        /\ is_active(share)
        /\ share.numerator # None /\ share.denominator # None
        /\ share.denominator.int > 0)

\* The unreduced rational sum of the counted shares.
RECURSIVE RationalSum(_)
RationalSum(shares) ==
    IF shares = <<>> THEN [num |-> 0, den |-> 1]
    ELSE LET rest == RationalSum(Tail(shares))
             n == Head(shares).numerator.int
             d == Head(shares).denominator.int
         IN  [num |-> rest.num * d + n * rest.den, den |-> rest.den * d]

SumsToWhole(shares) ==
    /\ Counted(shares) # <<>>
    /\ RationalSum(Counted(shares)).num = RationalSum(Counted(shares)).den

C20_WholeSharesTotalExactlyOne ==
    (derived.done /\ SumsToWhole(entity.lr_unit_shares))
        => derived.value = FloatOne


(***************************************************************************)
(* C18: summary(unit) has a fixed set of keys and its values agree with    *)
(* the derived operations: total_parcels, total_area_m2, num_owners,       *)
(* has_encumbrances and is_condominium, with the condominium unit count    *)
(* when the unit is a condominium.                                         *)
(***************************************************************************)
SummaryReturned == derived # NotCalled /\ derived.op = "summary"

SummaryKeys ==
    {"unit_number", "main_book", "total_parcels", "total_area_m2", "num_owners",
     "has_encumbrances", "is_condominium"}

C18_SummaryAgreesWithOperations ==
    SummaryReturned =>
        LET s == derived.result.value
        IN  /\ DOMAIN s \in {SummaryKeys, SummaryKeys \cup {"condominium_units"}}
            /\ s.total_parcels = Len(entity.possession_sheet_a1.cad_parcels)
            /\ s.total_area_m2 = total_area(entity.possession_sheet_a1.cad_parcels)
            /\ s.num_owners = Len(get_current_owners(entity.ownership_sheet_b.lr_unit_shares))
            /\ s.has_encumbrances = has_encumbrances(entity.encumbrance_sheet_c)
            /\ s.is_condominium = is_condominium(entity)
            /\ is_condominium(entity) <=> "condominium_units" \in DOMAIN s

(***************************************************************************)
(* C19: is_condominium(unit) is true exactly when the unit-type name       *)
(* contains the condominium marker as a case-sensitive substring, whatever *)
(* the `condominiums` flag says.                                           *)
(***************************************************************************)
HasMarker(name) ==
    \E i \in 1..Len(name) :
        /\ i + Len(CondominiumMarker) - 1 <= Len(name)
        /\ \A k \in 1..Len(CondominiumMarker) : name[i + k - 1] = CondominiumMarker[k]

IsCondominiumReturned == derived # NotCalled /\ derived.op = "is_condominium"

C21_OwnershipDecimalInUnitInterval ==
    (derived.done /\ derived.ok /\ derived.value # None)
        => /\ 0 <= derived.value.num
           /\ derived.value.num <= derived.value.den

(***************************************************************************)
(* C30: total_ownership is None exactly when no possessor has a specified  *)
(* fraction; otherwise, a zero fraction included, it is the sum of all     *)
(* specified fractions.                                                    *)
(***************************************************************************)
Specified(possessors) ==
    SelectSeq(possessors, LAMBDA p : ownership_decimal(p).value # None)

SpecifiedSum(possessors) ==
    sum([i \in 1..Len(Specified(possessors)) |->
            float(ownership_decimal(Specified(possessors)[i]).value)])

C30_TotalIsSumOfSpecified ==
    derived.done =>
        IF Specified(entity.possessors) = <<>>
        THEN derived.value = None
        ELSE derived.value = [float |-> SpecifiedSum(entity.possessors)]


(***************************************************************************)
(* C22: _parse_coordinates returns exactly the tokens that parse as two    *)
(* floats, in their original order; a token that does not parse is dropped *)
(* alone, so a record with corrupt tokens still yields a geometry holding  *)
(* all its valid points.                                                   *)
(***************************************************************************)
\* The whitespace-separated tokens of a text, by their positions.
TokenStarts(text) ==
    {i \in 1..Len(text) :
        text[i] \notin Whitespace /\ (i = 1 \/ text[i - 1] \in Whitespace)}

TokenAt(text, i) ==
    LET ends == {j \in i..Len(text) :
                    /\ \A k \in i..j : text[k] \notin Whitespace
                    /\ (j = Len(text) \/ text[j + 1] \in Whitespace)}
    IN  SubSeq(text, i, CHOOSE j \in ends : TRUE)

\* The token is x,y with x and y floats: its point, as a one-element list.
PointOf(token) ==
    LET fits == {k \in 1..Len(token) :
                    /\ token[k] = ","
                    /\ \A j \in 1..(k - 1) : token[j] # ","
                    /\ IsFloat(SubSeq(token, 1, k - 1))
                    /\ IsFloat(SubSeq(token, k + 1, Len(token)))}
    IN  IF fits = {} THEN <<>>
        ELSE LET k == CHOOSE k \in fits : TRUE
             IN  <<[x |-> SubSeq(token, 1, k - 1), y |-> SubSeq(token, k + 1, Len(token))]>>

RECURSIVE ValidPointsFrom(_, _)
ValidPointsFrom(text, i) ==
    IF i > Len(text) THEN <<>>
    ELSE IF i \in TokenStarts(text)
    THEN PointOf(TokenAt(text, i)) \o ValidPointsFrom(text, i + 1)
    ELSE ValidPointsFrom(text, i + 1)

ValidPoints(text) == ValidPointsFrom(text, 1)

NumberedAs(list, n) == {i \in 1..Len(list) : list[i].broj_cestice = n}

C27_ByNumberAgreesWithAllParcels ==
    (found.done /\ parcels.done /\ found.ok /\ parcels.ok) =>
        LET hits == NumberedAs(parcels.value, query)
        IN  /\ found.value # None <=> hits # {}
            /\ hits # {} =>
                   found.value = parcels.value[CHOOSE i \in hits : \A j \in hits : i <= j]


(***************************************************************************)
(* C23: land_use_summary maps each distinct category name among the parcel *)
(* parts to the sum of the areas of all parts with that name, whatever     *)
(* their sheet, has no other keys, and its values sum to the total area of *)
(* the parts.                                                              *)
(***************************************************************************)
RECURSIVE AreaOfParts(_, _)
AreaOfParts(parts, indices) ==
    IF indices = {} THEN 0
    ELSE LET i == CHOOSE i \in indices : TRUE
         IN  IntOf(strip(parts[i].area)) + AreaOfParts(parts, indices \ {i})

RECURSIVE SumOfValues(_, _)
SumOfValues(dict, keys) ==
    IF keys = {} THEN 0
    ELSE LET k == CHOOSE k \in keys : TRUE
         IN  dict[k] + SumOfValues(dict, keys \ {k})

C23_SummaryMergesByName ==
    derived.done =>
        LET parts == entity.parcel_parts
            named(n) == {i \in 1..Len(parts) : parts[i].name = n}
        IN  /\ DOMAIN derived.value = {parts[i].name : i \in 1..Len(parts)}
            /\ \A n \in DOMAIN derived.value :
                   derived.value[n] = AreaOfParts(parts, named(n))
            /\ SumOfValues(derived.value, DOMAIN derived.value)
                   = AreaOfParts(parts, 1..Len(parts))

C23_Witness ==
    /\ derived.done
    /\ Len(entity.parcel_parts) = MaxParts
    /\ \A i \in 1..MaxParts : entity.parcel_parts[i].name = "SUMA"
    /\ entity.parcel_parts[1].possession_sheet_id # entity.parcel_parts[2].possession_sheet_id
    /\ derived.value["SUMA"] > 10


(***************************************************************************)
(* C24: batch_lr_units fetches each distinct land-registry unit at most    *)
(* once: get_lr_unit_detailed is called at most one time for a given (unit *)
(* number, main book id), however many specs refer to it.                  *)
(***************************************************************************)
C24_EachUnitFetchedAtMostOnce ==
    derived.done =>
        \A i, j \in 1..Len(derived.value.calls) :
            derived.value.calls[i] = derived.value.calls[j] => i = j


(***************************************************************************)
(* C25: the JSON written by batch-fetch can be consumed by --from-batch-   *)
(* output: for every successful result whose parcel references a land-     *)
(* registry unit the unit's (lr_unit_number, main_book_id) is extracted,   *)
(* each distinct pair once, so an output with such a parcel never ends in  *)
(* the "No LR unit references found" error.                                *)
(***************************************************************************)
ReferencedUnits ==
    {r.parcel_data.lr_unit :
        r \in {entity.results[i] : i \in {j \in 1..Len(entity.results) :
                  /\ entity.results[j].status = "success"
                  /\ entity.results[j].parcel_data.lr_unit # None}}}

C25_BatchOutputFeedsBatchLrUnit ==
    (derived # NotCalled /\ derived.parsed.done /\ ReferencedUnits # {}) =>
        /\ derived.parsed.ok
        /\ {derived.parsed.value[i] : i \in 1..Len(derived.parsed.value)} = ReferencedUnits
        /\ Len(derived.parsed.value) = Cardinality(ReferencedUnits)


(***************************************************************************)
(* C26: parse_csv_file gives each parcel_number row the municipality of    *)
(* the nearest row at or above it whose municipality cell is non-empty,    *)
(* and fails with a ValueError when a row with an empty municipality cell  *)
(* comes before any row that specifies one.                                *)
(***************************************************************************)
EmptyCell(cell) == cell = None \/ strip(cell.text) = <<>>

Specifying(rows, i) == {j \in 1..i : ~EmptyCell(rows[j].municipality)}

C26_MunicipalityInherited ==
    (/\ derived.done
     /\ entity.rows # <<>>
     /\ \A i \in 1..Len(entity.rows) : ~EmptyCell(entity.rows[i].parcel_number)) =>
        IF \E i \in 1..Len(entity.rows) : Specifying(entity.rows, i) = {}
        THEN ~derived.ok /\ derived.error = "ValueError"
        ELSE /\ derived.ok
             /\ Len(derived.value) = Len(entity.rows)
             /\ \A i \in 1..Len(entity.rows) :
                    LET from == Specifying(entity.rows, i)
                        j == CHOOSE j \in from : \A k \in from : k <= j
                    IN  derived.value[i].municipality = strip(entity.rows[j].municipality.text)


(***************************************************************************)
(* C28: after any sequence of downloads (forced ones included),            *)
(* extractions and invalidations, the boundary file ensure_available       *)
(* returns for a municipality was extracted from the archive now stored    *)
(* for it; in particular that archive holds the file.                      *)
(***************************************************************************)
C28_ReturnedFileComesFromStoredArchive ==
    (last.op = "ensure_available" /\ last.raised = "none") =>
        /\ fs[last.code].gml = ParcelsGml
        /\ fs[last.code].zip = "archive_with_gml"

(***************************************************************************)
(* C29: one logical request always terminates and sends at most            *)
(* MAX_RETRIES + 1 HTTP attempts whatever mix of 429 and 5xx responses it  *)
(* gets; when the attempts are exhausted it raises rate_limit if the last  *)
(* response was 429 and server_error if it was 5xx; a timeout or a         *)
(* connection failure is raised at once, with no attempt after it.         *)
(***************************************************************************)
Retryable(response) ==
    /\ response.kind = "http"
    /\ response.status = 429 \/ (500 <= response.status /\ response.status < 600)

RaisedType(res) == IF res.done /\ ~res.ok THEN res.error.error_type ELSE "none"

C29_AttemptsBounded ==
    LET n == Len(remote.sent)
    IN  /\ n <= MAX_RETRIES + 1
        /\ \A k \in 1..(n - 1) : Retryable(remote.sent[k])
        /\ outcome = NotCalled =>
               /\ n <= MAX_RETRIES
               /\ \A k \in 1..n : Retryable(remote.sent[k])
        /\ outcome # NotCalled =>
               LET response == remote.sent[n]
               IN  /\ response.kind = "timeout" => RaisedType(outcome) = "timeout"
                   /\ response.kind = "connect_error" =>
                          RaisedType(outcome) = "connection"
                   /\ Retryable(response) =>
                          /\ n = MAX_RETRIES + 1
                          /\ RaisedType(outcome) =
                                 IF response.status = 429 THEN "rate_limit"
                                 ELSE "server_error"
                          /\ outcome.error.details.retry_count = MAX_RETRIES

C29_RequestTerminatesWithinRetries ==
    /\ []C29_AttemptsBounded
    /\ <>(outcome # NotCalled)

C29_Witness ==
    /\ RaisedType(outcome) = "rate_limit"
    /\ Len(remote.sent) = MAX_RETRIES + 1
    /\ remote.sent[1].status = 500
    /\ remote.sent[2].status = 429

====
